---- MODULE Spec2Model ----
(***************************************************************************)
(* jellyporter: the reconciliation store (internal/database/sqlite), the   *)
(* sync engine and the scheduler (internal/app.go), modelled as state      *)
(* machines.                                                               *)
(*                                                                         *)
(*   SpecDiff    the store's upsert and its "stale on this server" query,  *)
(*               driven the way the store's own tests drive them           *)
(*   SpecEngine  cycles of SyncOnce against two Jellyfin servers           *)
(*   SpecSched   App.Sync: ticker, webhook events, cooldown, the mutex     *)
(*               around SyncOnce                                           *)
(*   SpecStore   InsertItems in batches, with a batch that fails and is    *)
(*               rolled back                                               *)
(*   SpecKey     SpecDiff over rows that carry several provider ids        *)
(*   SpecEngineLater  SpecEngine with the clock started one second later   *)
(*   SpecPhaseB  phase B of one cycle, from catalogs already stored        *)
(*   SpecCycle   one cycle, started at any value of App.counter            *)
(*   SpecPages   Client.GetItems: the paged walk over a server's list      *)
(*   SpecOnce    Run with --once: one cycle, the metrics file, the exit    *)
(*   SpecDaemon  runDaemon: Sync, the webhook server and its handlers,     *)
(*               the signal and the shutdown                               *)
(*   SpecMigrate SQLiteJellyDb.Migrate on a database at any version        *)
(*   SpecUser    Client.GetUserId called by two goroutines                 *)
(*   SpecRemove  RemoveItemsNotSeenSince with any item type and time       *)
(*   SpecLoop    SpecSched with calls of SyncOnce that return errors       *)
(*   SpecLive    SpecEngine with playback while SyncOnce runs              *)
(*   SpecConverge  cycles of SyncOnce after playback has stopped           *)
(*                                                                         *)
(* Text is modelled as a sequence of one-character strings, so that the    *)
(* concatenations and the digit filter of the code are computed, not       *)
(* assumed.  time.Time is a record [isZero, unix].                         *)
(***************************************************************************)
EXTENDS Integers, Sequences, FiniteSets, TLC

VARIABLES
    movies,        \* table movies: a set of rows
    episodes,      \* table episodes: a set of rows
    changelog,     \* table changelog: rows in insertion (id) order
    state,         \* table state: (server, type) -> last_sync, 0 when no row
    now,           \* the wall clock, Unix seconds
    got,           \* SpecDiff: the result of the last diff query
    diffType,      \* SpecDiff: the item type the behaviour works on
    remote,        \* the Jellyfin servers: server -> type -> the items it holds
    accepted,      \* the Jellyfin servers: the user-data writes they accepted
    phase,         \* SyncOnce: "idle", or the phase "A" / "B" it is in
    curType,       \* SyncOnce: the item type it is working on
    w,             \* SyncOnce: the locals of each server's goroutine
    counter,       \* App.counter
    errs,          \* SyncOnce: the errors it has collected, and returns
    hook,          \* the channel of sync requests (capacity 1)
    closed,        \* the channel has been closed
    posted,        \* the requests the webhook has put on the channel so far
    pc,            \* Sync, and another caller of SyncOnce: where each is
    event,         \* Sync: the request taken from the channel
    cooldown,      \* App.cooldown
    timer,         \* the goroutine that ends the cooldown
    mutex,         \* App.mutex: its holder
    ctxDone,       \* the daemon's context is cancelled
    walk,          \* Client.GetItems: the server's list and the locals of the loop
    isShuttingDown,\* WebhookServer.Listen: the flag its handler reads
    handler,       \* the webhook's handler: where the handler of each request is
    listen,        \* WebhookServer.Listen: where it is
    exit,          \* runDaemon: how it has returned, "none" while it has not
    metricsFile,   \* Run with --once: what became of the metrics file
    exitCode,      \* Run with --once: the code the process has exited with
    dbSchema,      \* the database file: the migrations whose changes it holds
    schemaVersionRows, \* table schema_version: its rows, <<>> without the table
    migrate,       \* SQLiteJellyDb.Migrate: where it is, its locals, its transaction
    users,         \* a Jellyfin server's answer to GET /Users, and Client.userName
    userId,        \* Client.userId
    clientMutex,   \* Client.mutex: its holder
    getUserId,     \* Client.GetUserId: where each caller is, what it was returned
    lookups        \* the calls of Client.GetUsers so far

storeVars == <<movies, episodes, changelog, state>>
diffVars == <<got, diffType>>
engineVars == <<remote, accepted, phase, curType, w, counter, errs>>
schedVars == <<hook, closed, posted, pc, event, cooldown, timer, mutex, ctxDone>>
clientVars == <<walk>>
daemonVars == <<isShuttingDown, handler, listen, exit>>
runVars == <<metricsFile, exitCode>>
migrateVars == <<dbSchema, schemaVersionRows, migrate>>
userVars == <<users, userId, clientMutex, getUserId, lookups>>
libVars == <<migrateVars, userVars>>
outerVars == <<schedVars, clientVars, daemonVars, runVars, libVars>>
vars == <<movies, episodes, changelog, state, now, got, diffType,
          remote, accepted, phase, curType, w, counter, errs,
          hook, closed, posted, pc, event, cooldown, timer, mutex, ctxDone,
          walk, isShuttingDown, handler, listen, exit, metricsFile, exitCode,
          dbSchema, schemaVersionRows, migrate,
          users, userId, clientMutex, getUserId, lookups>>

-----------------------------------------------------------------------------
(* Bounds of the model *)

MaxDate == 2       \* LastPlayedDate values are 1..MaxDate (and the zero time)
MaxPos == 2        \* PlaybackPositionTicks values are 1..MaxPos
MaxRows == 3       \* rows in the tables when the diff query is examined alone
MaxTime == 2       \* the clock runs from 1 to MaxTime
MaxCycles == 2     \* calls of SyncOnce in a behaviour
MaxEvents == 2     \* requests the webhook puts on the channel
MaxSyncCalls == 3  \* calls of SyncOnce that the scheduler sees in a behaviour
MaxMigrations == 5 \* migration files
MaxCalls == 2      \* calls of GetUserId by one caller

-----------------------------------------------------------------------------
(* jellyfin.ItemType, time.Time *)

ItemMovie == "Movie"
ItemEpisode == "Episode"
ItemTypes == {ItemMovie, ItemEpisode}

ZeroTime == [isZero |-> TRUE, unix |-> 0]
Unix(sec) == [isZero |-> FALSE, unix |-> sec]

-----------------------------------------------------------------------------
(* Text *)

DigitChars == <<"0", "1", "2", "3", "4", "5", "6", "7", "8", "9">>
AsciiDigits == {DigitChars[i] : i \in 1..10}
\* a character unicode.IsDigit accepts and strconv.ParseInt does not
ArabicIndicThree == "U+0663"

DigitValue(c) == (CHOOSE i \in 1..10 : DigitChars[i] = c) - 1

RECURSIVE Digits(_)
Digits(n) ==
    IF n < 10 THEN <<DigitChars[n + 1]>>
    ELSE Digits(n \div 10) \o <<DigitChars[(n % 10) + 1]>>

\* CONCAT's and CAST(... AS VARCHAR)'s rendering of an integer
IntToText(n) == IF n < 0 THEN <<"-">> \o Digits(0 - n) ELSE Digits(n)

RECURSIVE DigitsValue(_)
DigitsValue(s) ==
    IF s = <<>> THEN 0
    ELSE 10 * DigitsValue(SubSeq(s, 1, Len(s) - 1)) + DigitValue(s[Len(s)])

AllAsciiDigits(s) == \A i \in 1..Len(s) : s[i] \in AsciiDigits

IsDigitOrMinus(c) == c \in AsciiDigits \/ c = ArabicIndicThree \/ c = "-"

SanitizeAndParseInt64(input) ==
    LET cleaned == SelectSeq(input, IsDigitOrMinus) IN
    IF cleaned = <<>> \/ cleaned = <<"-">> THEN 0
    ELSE IF cleaned[1] = "-"
         THEN IF AllAsciiDigits(Tail(cleaned)) THEN 0 - DigitsValue(Tail(cleaned)) ELSE 0
         ELSE IF AllAsciiDigits(cleaned) THEN DigitsValue(cleaned) ELSE 0

NullInt64(v) == [Int64 |-> v, Valid |-> v # 0]

-----------------------------------------------------------------------------
(* Store: upsert *)

WatchedDateOf(item) ==
    IF ~item.UserData.LastPlayedDate.isZero THEN item.UserData.LastPlayedDate.unix ELSE 0

MovieToInsertMovieParam(server, movie) ==
    [server |-> server,
     name |-> movie.Name,
     local_id |-> movie.ID,
     imdb_id |-> NullInt64(SanitizeAndParseInt64(movie.ProviderIDs.IMDB)),
     tmdb_id |-> NullInt64(SanitizeAndParseInt64(movie.ProviderIDs.TMDB)),
     runtime |-> movie.Runtime,
     watched_date |-> WatchedDateOf(movie),
     watched_progress |-> movie.UserData.PlayedPercentage,
     watched_position_ticks |-> movie.UserData.PlaybackPositionTicks,
     is_favorite |-> movie.UserData.IsFavorite]

EpisodeToInsertEpisodeParam(server, episode) ==
    [server |-> server,
     name |-> episode.Name,
     local_id |-> episode.ID,
     series_name |-> episode.SeriesName,
     season_name |-> episode.SeasonName,
     imdb_id |-> NullInt64(SanitizeAndParseInt64(episode.ProviderIDs.IMDB)),
     tmdb_id |-> NullInt64(SanitizeAndParseInt64(episode.ProviderIDs.TMDB)),
     tvdb_id |-> NullInt64(SanitizeAndParseInt64(episode.ProviderIDs.TVDB)),
     runtime |-> episode.Runtime,
     watched_date |-> WatchedDateOf(episode),
     watched_progress |-> episode.UserData.PlayedPercentage,
     watched_position_ticks |-> episode.UserData.PlaybackPositionTicks,
     is_favorite |-> episode.UserData.IsFavorite]

\* The INSERT statements name no last_seen column (movies.sql 81-105,
\* changelog.sql 107-137) and the column is NOT NULL without a default; the
\* store's tests insert into a fresh database and succeed.  A new row is taken
\* to receive the time of its insertion, as the data model says.
LastSeenOfNewRow(t) == t

Conflict(table, params) ==
    {r \in table : r.server = params.server /\ r.local_id = params.local_id}

\* InsertMovie without its ON CONFLICT clause and without the UNIQUE index
InsertMovieNoConflict(table, params, t) ==
    table \cup {params @@ [last_seen |-> LastSeenOfNewRow(t)]}

\* INSERT ... ON CONFLICT(server, local_id) DO UPDATE SET <every column of the
\* statement>: last_seen is not among them, the row keeps the one it has.
InsertMovie(table, params, t) ==
    IF Conflict(table, params) = {}
    THEN table \cup {params @@ [last_seen |-> LastSeenOfNewRow(t)]}
    ELSE {IF r \in Conflict(table, params)
          THEN params @@ [last_seen |-> r.last_seen]
          ELSE r : r \in table}

InsertEpisode(table, params, t) ==
    IF Conflict(table, params) = {}
    THEN table \cup {params @@ [last_seen |-> LastSeenOfNewRow(t)]}
    ELSE {IF r \in Conflict(table, params)
          THEN params @@ [last_seen |-> r.last_seen]
          ELSE r : r \in table}

RECURSIVE InsertMovies(_, _, _, _)
InsertMovies(table, server, items, t) ==
    IF items = <<>> THEN table
    ELSE InsertMovies(InsertMovie(table, MovieToInsertMovieParam(server, Head(items)), t),
                      server, Tail(items), t)

RECURSIVE InsertEpisodes(_, _, _, _)
InsertEpisodes(table, server, items, t) ==
    IF items = <<>> THEN table
    ELSE InsertEpisodes(InsertEpisode(table, EpisodeToInsertEpisodeParam(server, Head(items)), t),
                        server, Tail(items), t)

-----------------------------------------------------------------------------
(* Store: the diff query, "stale on this server" *)

S_imdb == <<"i", "m", "d", "b", "_">>
S_tmdb == <<"t", "m", "d", "b", "_">>
S_tvdb == <<"t", "v", "d", "b", "_">>
S_name == <<"n", "a", "m", "e", "_">>
S_sep == <<"_">>

\* "x IS NOT NULL AND x != ''" on an INTEGER column: an integer never equals
\* the text '', so the test is x IS NOT NULL.
NotNullNotEmpty(x) == x.Valid

\* the CASE of the movies' match_key with its first two branches exchanged
MovieMatchKeyTmdbFirst(r) ==
    IF NotNullNotEmpty(r.tmdb_id) THEN S_tmdb \o IntToText(r.tmdb_id.Int64)
    ELSE IF NotNullNotEmpty(r.imdb_id) THEN S_imdb \o IntToText(r.imdb_id.Int64)
    ELSE S_name \o r.name \o S_sep \o IntToText(r.runtime)

MovieMatchKey(r) ==
    IF NotNullNotEmpty(r.imdb_id) THEN S_imdb \o IntToText(r.imdb_id.Int64)
    ELSE IF NotNullNotEmpty(r.tmdb_id) THEN S_tmdb \o IntToText(r.tmdb_id.Int64)
    ELSE S_name \o r.name \o S_sep \o IntToText(r.runtime)

EpisodeMatchKey(r) ==
    IF NotNullNotEmpty(r.imdb_id) THEN S_imdb \o IntToText(r.imdb_id.Int64)
    ELSE IF NotNullNotEmpty(r.tmdb_id) THEN S_tmdb \o IntToText(r.tmdb_id.Int64)
    ELSE IF NotNullNotEmpty(r.tvdb_id) THEN S_tvdb \o IntToText(r.tvdb_id.Int64)
    ELSE S_name \o r.name \o S_sep \o r.series_name \o S_sep \o r.season_name
             \o S_sep \o IntToText(r.runtime)

MaxOf(S) == CHOOSE x \in S : \A y \in S : y <= x

\* CTE episode_groups: every row of the table with its match_key
MovieGroups(table) == {r @@ [match_key |-> MovieMatchKey(r)] : r \in table}

EpisodeGroups(table) == {r @@ [match_key |-> EpisodeMatchKey(r)] : r \in table}

\* local_movies / local_episodes without "WHERE server = ?"
LocalRowsOfAnyServer(groups, server) == groups

\* CTE local_movies / local_episodes
LocalRows(groups, server) == {r \in groups : r.server = server}

\* CTE max_remote_movies / max_remote_episodes: match_key -> MAX(watched_date)
\* over the rows of the other servers that have been watched
MaxRemote(groups, server) ==
    LET watched == {r \in groups : r.server # server /\ r.watched_date > 0}
    IN [k \in {r.match_key : r \in watched} |->
            MaxOf({r.watched_date : r \in {x \in watched : x.match_key = k}})]

\* CTE best_remote_*: the rows of the join, by match key.  Every row of a key
\* carries the maximum, so ORDER BY watched_date DESC leaves their order open
\* and FIRST_VALUE may take any of them (the same one for every column).
BestRemoteCandidates(groups, server) ==
    LET mre == MaxRemote(groups, server)
    IN [k \in DOMAIN mre |->
            {eg \in groups : /\ eg.match_key = k
                             /\ eg.watched_date = mre[k]
                             /\ eg.server # server}]

BestRemotePicks(groups, server) ==
    LET cand == BestRemoteCandidates(groups, server)
    IN {bre \in [DOMAIN cand -> groups] : \A k \in DOMAIN cand : bre[k] \in cand[k]}

\* the final WHERE with >= in place of > (a server that is level is returned)
NewerOrLevel(remote_watched_date, local_watched_date) ==
    /\ remote_watched_date >= local_watched_date
    /\ remote_watched_date > 0

\* the final WHERE; watched_date is NOT NULL, so COALESCE(x, 0) is x
NewerThanLocal(remote_watched_date, local_watched_date) ==
    /\ remote_watched_date > local_watched_date
    /\ remote_watched_date > 0

\* the final SELECT list with the remote row's local_id
MovieResultRowRemoteId(le, bre) ==
    [LocalID |-> bre.local_id,
     Name |-> bre.name,
     SeriesName |-> <<>>,
     WatchedDate |-> bre.watched_date,
     WatchedProgress |-> bre.watched_progress,
     WatchedPositionTicks |-> bre.watched_position_ticks,
     IsFavorite |-> bre.is_favorite]

\* the final SELECT list, as GetMoviesWithUpdatedUserData copies it
MovieResultRow(le, bre) ==
    [LocalID |-> le.local_id,
     Name |-> bre.name,
     SeriesName |-> <<>>,
     WatchedDate |-> bre.watched_date,
     WatchedProgress |-> bre.watched_progress,
     WatchedPositionTicks |-> bre.watched_position_ticks,
     IsFavorite |-> bre.is_favorite]

EpisodeResultRow(le, bre) ==
    [LocalID |-> le.local_id,
     Name |-> bre.name,
     SeriesName |-> bre.series_name,
     WatchedDate |-> bre.watched_date,
     WatchedProgress |-> bre.watched_progress,
     WatchedPositionTicks |-> bre.watched_position_ticks,
     IsFavorite |-> bre.is_favorite]

\* best_remote INNER JOIN local ON match_key, for one choice among the ties
StaleLocalRows(groups, server, bre) ==
    {le \in LocalRows(groups, server) :
        /\ le.match_key \in DOMAIN bre
        /\ NewerThanLocal(bre[le.match_key].watched_date, le.watched_date)}

\* The query has no ORDER BY: the rows come in some order.
Orderings(S) ==
    {s \in [1..Cardinality(S) -> S] : \A i, j \in 1..Cardinality(S) : s[i] = s[j] => i = j}

GetMovieWithGreatestWatchedDate(table, server) ==
    LET groups == MovieGroups(table)
    IN UNION {Orderings({MovieResultRow(le, bre[le.match_key]) :
                            le \in StaleLocalRows(groups, server, bre)}) :
                 bre \in BestRemotePicks(groups, server)}

GetEpisodeWithGreatestWatchedDate(table, server) ==
    LET groups == EpisodeGroups(table)
    IN UNION {Orderings({EpisodeResultRow(le, bre[le.match_key]) :
                            le \in StaleLocalRows(groups, server, bre)}) :
                 bre \in BestRemotePicks(groups, server)}

Table(type) == IF type = ItemMovie THEN movies ELSE episodes

\* SQLiteJellyDb.GetMoviesWithUpdatedUserData / GetEpisodesWithUpdatedUserData:
\* the lists a call may return
WithUpdatedUserData(type, server) ==
    IF type = ItemMovie
    THEN GetMovieWithGreatestWatchedDate(movies, server)
    ELSE GetEpisodeWithGreatestWatchedDate(episodes, server)

MatchKeyOf(type, r) == IF type = ItemMovie THEN MovieMatchKey(r) ELSE EpisodeMatchKey(r)

-----------------------------------------------------------------------------
(* SpecDiff: InsertMovies / InsertEpisodes and the diff query on a database  *)
(* of three servers, as TestSQLiteQueue_GetUnwatchedMovies and              *)
(* TestSQLiteQueue_GetUnwatchedEpisodes drive them.                          *)

DiffServers == {"dd", "ez", "pt"}

\* the item ids each server hands out
DiffLocalIds(server) ==
    IF server = "dd" THEN {"1", "2"} ELSE IF server = "ez" THEN {"3"} ELSE {"4"}

\* The Matrix, once with the ids of the tests (Imdb tt7, Tmdb 3) and once
\* known by its Tmdb id only
Identities(type) ==
    {[Name |-> <<"M">>,
      SeriesName |-> IF type = ItemEpisode THEN <<"S">> ELSE <<>>,
      SeasonName |-> IF type = ItemEpisode THEN <<"1">> ELSE <<>>,
      ProviderIDs |-> [IMDB |-> imdb, TMDB |-> <<"3">>, TVDB |-> <<>>],
      Runtime |-> 5] : imdb \in {<<"t", "t", "7">>, <<>>}}

LastPlayedDates == {ZeroTime} \cup {Unix(d) : d \in 1..MaxDate}

UserDatas ==
    {[LastPlayedDate |-> d,
      PlayedPercentage |-> 50,
      PlaybackPositionTicks |-> p,
      IsFavorite |-> (p % 2 = 0)] : d \in LastPlayedDates, p \in 1..MaxPos}

Item(id, i, u) ==
    [ID |-> id, Name |-> i.Name, SeriesName |-> i.SeriesName, SeasonName |-> i.SeasonName,
     ProviderIDs |-> i.ProviderIDs, Runtime |-> i.Runtime, UserData |-> u]

NoResult == [server |-> "", type |-> "", rows |-> <<>>]

\* events.EventSyncRequest as the webhook's handler builds it: Source and
\* Metadata; the Response channel is left nil
NilChan == "nil"

ZeroEvent == [Source |-> "", Response |-> NilChan]

Callers == {"Sync", "other"}

Unlocked == "unlocked"

\* the scheduler before the daemon is started
SchedAtRest ==
    /\ hook = <<>>
    /\ closed = FALSE
    /\ posted = 0
    /\ pc = [c \in Callers |-> IF c = "Sync" THEN "start" ELSE "idle"]
    /\ event = ZeroEvent
    /\ cooldown = FALSE
    /\ timer = "none"
    /\ mutex = Unlocked
    /\ ctxDone = FALSE

\* Client.GetItems is not being called
NoWalk == [pc |-> "idle", list |-> <<>>, opts |-> [Limit |-> 0, Since |-> <<>>, StartIndex |-> 0],
           startIndex |-> 0, allMovies |-> <<>>, requests |-> 0]

ClientAtRest == walk = NoWalk

\* requests the webhook is sent in a behaviour
Requests == 1..MaxEvents

\* the webhook and runDaemon before the signal, with no request under way
DaemonAtRest ==
    /\ isShuttingDown = FALSE
    /\ handler = [r \in Requests |-> "none"]
    /\ listen = "start"
    /\ exit = "none"

NoExit == -1

\* Run is not past SyncOnce
RunAtRest ==
    /\ metricsFile = "none"
    /\ exitCode = NoExit

\* the migration files embedded in the binary, and their number
schemaVersion == MaxMigrations

\* Migrate with no transaction open
NoTx == [open |-> FALSE, schema |-> <<>>, rows |-> <<>>]

\* the database holds every migration, Migrate has returned
MigrateAtRest ==
    /\ dbSchema = [i \in 1..schemaVersion |-> i]
    /\ schemaVersionRows = <<schemaVersion>>
    /\ migrate = [pc |-> "returned", currentVersion |-> schemaVersion,
                  version |-> schemaVersion, tx |-> NoTx, err |-> FALSE]

\* the goroutines that call GetUserId on one client
UserCallers == {"c1", "c2"}

\* a caller of GetUserId before its first call
IdleCaller == [pc |-> "idle", calls |-> 0, id |-> "", err |-> FALSE, looked |-> FALSE]

\* a client that has not been asked for its user id
UserAtRest ==
    /\ users = [list |-> <<>>, userName |-> ""]
    /\ userId = ""
    /\ clientMutex = Unlocked
    /\ getUserId = [c \in UserCallers |-> IdleCaller]
    /\ lookups = <<>>

LibAtRest == MigrateAtRest /\ UserAtRest

\* the locals of a goroutine that is not running
IdleWorker ==
    [pc |-> "done", start |-> ZeroTime, opts |-> [Limit |-> 0, Since |-> <<>>],
     items |-> <<>>, removed |-> {}, updated |-> <<>>, idx |-> 0,
     lowestTimestamp |-> 0, encounteredErrors |-> FALSE, err |-> FALSE]

DiffSlots == {sl \in DiffServers \X {"1", "2", "3", "4"} : sl[2] \in DiffLocalIds(sl[1])}

CatalogOf(cat, server) ==
    {Item(sl[2], cat[sl][1], cat[sl][2]) : sl \in {x \in DOMAIN cat : x[1] = server}}

SomeOrder(S) == CHOOSE s \in Orderings(S) : TRUE

RECURSIVE InsertAll(_, _, _)
InsertAll(type, cat, servers) ==
    IF servers = {} THEN {}
    ELSE LET server == CHOOSE x \in servers : TRUE
             rest == InsertAll(type, cat, servers \ {server})
             items == SomeOrder(CatalogOf(cat, server))
         IN IF type = ItemEpisode THEN InsertEpisodes(rest, server, items, 1)
            ELSE InsertMovies(rest, server, items, 1)

\* The servers hold some catalogs (which slots are filled, and with what), and
\* every server's catalog has been upserted, as the tests do before they query
InitDiff ==
    /\ diffType \in ItemTypes
    /\ \E filled \in {f \in SUBSET DiffSlots : Cardinality(f) <= MaxRows} : \E cat \in [filled -> Identities(diffType) \X UserDatas] :
          /\ movies = IF diffType = ItemMovie THEN InsertAll(ItemMovie, cat, DiffServers) ELSE {}
          /\ episodes = IF diffType = ItemEpisode THEN InsertAll(ItemEpisode, cat, DiffServers) ELSE {}
    /\ changelog = <<>>
    /\ state = [s \in DiffServers, t \in ItemTypes |-> 0]
    /\ now = 1
    /\ got = NoResult
    /\ remote = [s \in DiffServers |-> [t \in ItemTypes |-> {}]]
    /\ accepted = <<>>
    /\ phase = "idle"
    /\ curType = ItemMovie
    /\ w = [s \in DiffServers |-> IdleWorker]
    /\ counter = 0
    /\ errs = {}
    /\ SchedAtRest
    /\ ClientAtRest
    /\ DaemonAtRest
    /\ RunAtRest
    /\ LibAtRest

DiffQuery ==
    \E server \in DiffServers :
        \E updated \in WithUpdatedUserData(diffType, server) :
            /\ got' = [server |-> server, type |-> diffType, rows |-> updated]
            /\ UNCHANGED <<storeVars, now, diffType, engineVars, outerVars>>

NextDiff == DiffQuery

SpecDiff == InitDiff /\ [][NextDiff]_vars

-----------------------------------------------------------------------------
(* Properties of the diff query *)

GotRows == {got.rows[i] : i \in 1..Len(got.rows)}

\* the rows of the queried server, and those of the other servers
GotLocal == {r \in Table(got.type) : r.server = got.server}

GotRemote == {r \in Table(got.type) : r.server # got.server}

SameKey(a, b) == MatchKeyOf(got.type, a) = MatchKeyOf(got.type, b)

\* some other server holds a played row of le's key that is strictly newer
Behind(le) ==
    \E r \in GotRemote : SameKey(r, le) /\ r.watched_date > 0 /\ r.watched_date > le.watched_date

\* the rows of the other servers that hold the maximum watched_date of le's key
Newest(le) ==
    {r \in GotRemote : /\ SameKey(r, le)
                       /\ \A x \in GotRemote : SameKey(x, le) => x.watched_date <= r.watched_date}

CarriesUserDataOf(row, r) ==
    /\ row.WatchedDate = r.watched_date
    /\ row.WatchedProgress = r.watched_progress
    /\ row.WatchedPositionTicks = r.watched_position_ticks
    /\ row.IsFavorite = r.is_favorite

\* C3: every row the diff query returns for a server S is the row of an item
\* of S for whose match key another server holds a watched_date that is
\* positive and strictly greater than S's; so the result is empty when nobody
\* has played anything, when S is ahead of or level with every other server.
DiffSoundness ==
    got # NoResult =>
        /\ \A row \in GotRows :
              \E le \in GotLocal : le.local_id = row.LocalID /\ Behind(le)
        /\ (\A r \in GotRemote : r.watched_date = 0) => got.rows = <<>>
        /\ (\A le \in GotLocal : \A r \in GotRemote :
                SameKey(r, le) => r.watched_date <= le.watched_date) => got.rows = <<>>

\* a server that has played an item, and is behind another, was queried
DiffSoundnessWitness ==
    /\ got # NoResult
    /\ got.rows # <<>>
    /\ \E le \in GotLocal : le.watched_date > 0 /\ Behind(le)
    /\ \E le \in GotLocal : le.watched_date > 0 /\ ~Behind(le)

\* C4 as stated: for a match key of S that is behind, the result has exactly
\* one row for that server and key.
DiffOneRowPerKey ==
    got # NoResult =>
        \A le \in GotLocal :
            Behind(le) =>
                Cardinality({i \in 1..Len(got.rows) :
                    \E x \in GotLocal : SameKey(x, le) /\ x.local_id = got.rows[i].LocalID}) = 1

\* C4, amended: for every row of S that is behind, the result has exactly
\* one row with that row's local_id, and it carries the user data of a row of
\* another server that holds the maximum watched_date of the match key.
DiffCompleteness ==
    got # NoResult =>
        \A le \in GotLocal :
            Behind(le) =>
                /\ Cardinality({i \in 1..Len(got.rows) : got.rows[i].LocalID = le.local_id}) = 1
                /\ \A row \in GotRows :
                      row.LocalID = le.local_id =>
                          \E r \in Newest(le) : CarriesUserDataOf(row, r)

\* the queried server is behind two servers that are level at the maximum
\* with different user data
DiffCompletenessWitness ==
    /\ got # NoResult
    /\ \E le \in GotLocal :
          /\ Behind(le)
          /\ \E a, b \in Newest(le) :
                a.watched_position_ticks # b.watched_position_ticks
    /\ Len(got.rows) >= 1

\* C14: an item of other servers whose match key no row of S has produces
\* no row for S: every row of the result names the local_id of a row of S
\* whose match key another server holds too, and the result is empty when S
\* shares no match key with the others, whatever they have played.
AbsentOnServerNoRow ==
    got # NoResult =>
        /\ \A row \in GotRows :
              \E le \in GotLocal :
                  le.local_id = row.LocalID /\ \E r \in GotRemote : SameKey(r, le)
        /\ (\A le \in GotLocal : \A r \in GotRemote : ~SameKey(r, le)) => got.rows = <<>>

\* S was queried and is behind on one item, while another server has played
\* an item whose match key S does not have
AbsentOnServerWitness ==
    /\ got # NoResult
    /\ Len(got.rows) = 1
    /\ \E r \in GotRemote :
          /\ r.watched_date > 0
          /\ \A le \in GotLocal : ~SameKey(r, le)

-----------------------------------------------------------------------------
(* Store: prune, changelog, watermark *)

\* DELETE FROM movies WHERE server = ? AND last_seen < ?  (the statement is
\* generated code; the store's contract gives its text)
NotSeenSince(table, server, since) ==
    {r \in table : r.server = server /\ r.last_seen < since}

\* SQLiteJellyDb.RemoveMoviesNotSeenSince / RemoveEpisodesNotSeenSince
RemoveMoviesNotSeenSince(table, server, since) ==
    table \ NotSeenSince(table, server, since.unix)

RemoveEpisodesNotSeenSince(table, server, since) ==
    table \ NotSeenSince(table, server, since.unix)

\* RemoveItemsNotSeenSince that deletes nothing
RemoveNothing(tables, server, itemType, notSeenSince) == tables

\* SQLiteJellyDb.RemoveItemsNotSeenSince on the pair <<movies, episodes>>;
\* a zero notSeenSince and an item type that has no table are refused
RemoveItemsNotSeenSince(tables, server, itemType, notSeenSince) ==
    IF notSeenSince.isZero THEN tables
    ELSE IF itemType = ItemEpisode
    THEN <<tables[1], RemoveEpisodesNotSeenSince(tables[2], server, notSeenSince)>>
    ELSE IF itemType = ItemMovie
    THEN <<RemoveMoviesNotSeenSince(tables[1], server, notSeenSince), tables[2]>>
    ELSE tables

\* RemoveItemsNotSeenSince that refuses a zero time only
RemoveRefusesZeroOnly(itemType, notSeenSince) == notSeenSince.isZero

\* the calls of RemoveItemsNotSeenSince that return an error without a
\* statement having been run
RemoveItemsNotSeenSinceRefuses(itemType, notSeenSince) ==
    \/ notSeenSince.isZero
    \/ itemType \notin {ItemEpisode, ItemMovie}

\* SQLiteJellyDb.InsertItems on the pair <<movies, episodes>>
InsertItems(tables, server, itemType, items, t) ==
    IF itemType = ItemEpisode
    THEN <<tables[1], InsertEpisodes(tables[2], server, items, t)>>
    ELSE <<InsertMovies(tables[1], server, items, t), tables[2]>>

\* getChangelogData
getChangelogData(item) ==
    [LocalID |-> item.LocalID,
     NewWatchedDate |-> item.WatchedDate,
     NewWatchedProgress |-> item.WatchedProgress,
     NewWatchedPositionTicks |-> item.WatchedPositionTicks,
     NewIsFavorite |-> item.IsFavorite]

\* InsertChangelog that writes no row
InsertNoChangelog(log, server, change, t) == log

\* SQLiteJellyDb.InsertChangelog: one more row, dated with the store's clock
InsertChangelog(log, server, change, t) ==
    Append(log, [server |-> server,
                 local_id |-> change.LocalID,
                 date |-> t,
                 new_watched_date |-> change.NewWatchedDate,
                 new_watched_progress |-> change.NewWatchedProgress,
                 new_watched_position_ticks |-> change.NewWatchedPositionTicks,
                 new_is_favorite |-> change.NewIsFavorite])

\* SQLiteJellyDb.UpsertState; CHECK (last_sync > 0) rejects the statement and
\* the callers only log the error
UpsertState(st, server, itemType, ts) ==
    IF ts.unix > 0 THEN [st EXCEPT ![server, itemType] = ts.unix] ELSE st

\* SQLiteJellyDb.GetState: no row is an error, and the zero time
GetState(st, server, itemType) ==
    IF st[server, itemType] = 0 THEN ZeroTime ELSE Unix(st[server, itemType])

-----------------------------------------------------------------------------
(* The Jellyfin client *)

TimeBefore(a, b) == IF a.isZero THEN ~b.isZero ELSE ~b.isZero /\ a.unix < b.unix

TimeAfter(a, b) == TimeBefore(b, a)

IsDelta(o) == o.Since # <<>>

\* the page the server answers with: every item of the type, most recently
\* played first when the request sorts by DatePlayed descending
Pages(catalog, opts) ==
    {s \in Orderings(catalog) :
        IsDelta(opts) =>
            \A i, j \in 1..Len(s) :
                i < j => ~TimeBefore(s[i].UserData.LastPlayedDate, s[j].UserData.LastPlayedDate)}

RECURSIVE PlayedAfter(_, _)
PlayedAfter(items, since) ==
    IF items = <<>> THEN <<>>
    ELSE IF TimeAfter(Head(items).UserData.LastPlayedDate, since)
    THEN <<Head(items)>> \o PlayedAfter(Tail(items), since)
    ELSE PlayedAfter(Tail(items), since)

\* a page taken whole
WholePage(page, opts) == page

\* Client.GetItems for a catalog of fewer items than opts.Limit (one page)
FilterPage(page, opts) ==
    IF /\ IsDelta(opts)
       /\ page # <<>>
       /\ TimeBefore(page[Len(page)].UserData.LastPlayedDate, opts.Since[1])
    THEN PlayedAfter(page, opts.Since[1])
    ELSE page

GetItems(catalog, opts) == {FilterPage(page, opts) : page \in Pages(catalog, opts)}

\* ItemWithUpdatedUserData.AsUserData
AsUserData(m) ==
    [PlaybackPositionTicks |-> m.WatchedPositionTicks,
     PlayedPercentage |-> m.WatchedProgress,
     LastPlayedDate |-> Unix(m.WatchedDate),
     IsFavorite |-> m.IsFavorite]

\* what a server does with an accepted POST .../UserData
ApplyUserData(catalog, itemID, userData) ==
    {IF i.ID = itemID THEN [i EXCEPT !.UserData = userData] ELSE i : i \in catalog}

-----------------------------------------------------------------------------
(* The engine: App.SyncOnce *)

SyncIntervalMinutes == 15
FullSyncIntervalMinutes == 30

\* math.MaxInt64, cut to the integers of the model checker: the start value
\* of lowestTimestamp, above every watched_date
MaxInt64 == 2147483647

\* the full listing asked for in the first cycle only
getQueryOptsFirstCycle(lastCheck, cnt) ==
    IF lastCheck.isZero \/ cnt = 0
    THEN [Limit |-> 500, Since |-> <<>>]
    ELSE [Limit |-> 25, Since |-> <<lastCheck>>]

\* App.getQueryOpts
getQueryOpts(lastCheck, cnt) ==
    IF lastCheck.isZero \/ cnt % (FullSyncIntervalMinutes \div SyncIntervalMinutes) = 0
    THEN [Limit |-> 500, Since |-> <<>>]
    ELSE [Limit |-> 25, Since |-> <<lastCheck>>]

\* the watermark set to the lowest written date itself
WatermarkAtLowest(lowestTimestamp) == Unix(lowestTimestamp)

\* the watermark after a run of writes without error
WatermarkAfterWrites(lowestTimestamp) == Unix(lowestTimestamp - 1)

EngineServers == {"dd", "ez"}

\* the libraries at the start: The Matrix on both servers, on dd in two
\* copies; nothing has been played
Matrix(id, imdb, type) ==
    [ID |-> id,
     Name |-> <<"M">>,
     SeriesName |-> IF type = ItemEpisode THEN <<"S">> ELSE <<>>,
     SeasonName |-> IF type = ItemEpisode THEN <<"1">> ELSE <<>>,
     ProviderIDs |-> [IMDB |-> imdb, TMDB |-> <<"3">>, TVDB |-> <<>>],
     Runtime |-> 5,
     UserData |-> [LastPlayedDate |-> ZeroTime, PlayedPercentage |-> 0,
                   PlaybackPositionTicks |-> 0, IsFavorite |-> FALSE]]

Library(server, type) ==
    IF server = "dd"
    THEN {Matrix("1", <<"t", "t", "7">>, type), Matrix("2", <<"t", "t", "7">>, type)}
    ELSE {Matrix("3", <<"t", "t", "7">>, type)}

\* the locals of a goroutine that is about to run
FreshWorker(at) == [IdleWorker EXCEPT !.pc = at]

InitEngine ==
    /\ movies = {}
    /\ episodes = {}
    /\ changelog = <<>>
    /\ state = [s \in EngineServers, t \in ItemTypes |-> 0]
    /\ now = 1
    /\ got = NoResult
    /\ diffType = ItemMovie
    /\ remote = [s \in EngineServers |->
                    [t \in ItemTypes |-> IF t = ItemMovie THEN Library(s, t) ELSE {}]]
    /\ accepted = <<>>
    /\ phase = "idle"
    /\ curType = ItemMovie
    /\ w = [s \in EngineServers |-> IdleWorker]
    /\ counter = 0
    /\ errs = {}
    /\ SchedAtRest
    /\ ClientAtRest
    /\ DaemonAtRest
    /\ RunAtRest
    /\ LibAtRest

\* the clock; a call of SyncOnce may take any time
Tick ==
    /\ now < MaxTime
    /\ now' = now + 1
    /\ UNCHANGED <<storeVars, diffVars, outerVars, engineVars>>

\* somebody plays an item on a server, between two calls of SyncOnce
Play ==
    /\ phase = "idle"
    /\ \E s \in EngineServers, t \in ItemTypes :
        \E i \in remote[s][t] :
            /\ remote' = [remote EXCEPT ![s][t] =
                  ApplyUserData(@, i.ID, [LastPlayedDate |-> Unix(now),
                                          PlayedPercentage |-> 50,
                                          PlaybackPositionTicks |-> 1,
                                          IsFavorite |-> FALSE])]
            /\ UNCHANGED <<storeVars, now, diffVars, outerVars, accepted, phase, curType, w, counter, errs>>

\* an item is removed from a server's library, between two calls of SyncOnce
RemoveItem ==
    /\ phase = "idle"
    /\ \E s \in EngineServers, t \in ItemTypes :
        \E i \in remote[s][t] :
            /\ remote' = [remote EXCEPT ![s][t] = @ \ {i}]
            /\ UNCHANGED <<storeVars, now, diffVars, outerVars, accepted, phase, curType, w, counter, errs>>

\* SyncOnce is called and takes the mutex; fetchUpdatesFromJellyfin starts a
\* goroutine per client for movies
SyncOnceBegin ==
    /\ phase = "idle"
    /\ counter < MaxCycles
    /\ phase' = "A"
    /\ curType' = ItemMovie
    /\ w' = [s \in EngineServers |-> FreshWorker("fetch")]
    /\ errs' = {}
    /\ UNCHANGED <<storeVars, now, diffVars, outerVars, remote, accepted, counter>>

\* fetchUpdateFromJellyfin
Fetch(s) ==
    /\ phase = "A"
    /\ w[s].pc = "fetch"
    /\ LET opts == getQueryOpts(GetState(state, s, curType), counter)
           start == Unix(now)
       IN \E items \in GetItems(remote[s][curType], opts) :
            LET inserted == InsertItems(<<movies, episodes>>, s, curType, items, now)
                pruned == RemoveItemsNotSeenSince(inserted, s, curType, start)
            IN /\ movies' = pruned[1]
               /\ episodes' = pruned[2]
               /\ w' = [w EXCEPT ![s] = [@ EXCEPT !.pc = "done", !.start = start,
                           !.opts = opts, !.items = items,
                           !.removed = {r.local_id : r \in (inserted[1] \cup inserted[2])
                                                        \ (pruned[1] \cup pruned[2])}]]
    /\ UNCHANGED <<changelog, state, now, diffVars, outerVars, remote, accepted, phase, curType, counter, errs>>

\* the server does not answer GetUserId or GetItems: the goroutine returns
\* the error
FetchFails(s) ==
    /\ phase = "A"
    /\ w[s].pc = "fetch"
    /\ w' = [w EXCEPT ![s] = [@ EXCEPT !.pc = "done", !.start = Unix(now), !.err = TRUE]]
    /\ UNCHANGED <<storeVars, now, diffVars, outerVars, remote, accepted, phase, curType, counter, errs>>

\* the errors that syncMoviesWatchedState / syncEpisodesWatchedState return:
\* those of the goroutines of the phase it returns from
Returned == {[type |-> curType, phase |-> phase, server |-> s] : s \in {x \in EngineServers : w[x].err}}

\* wg.Wait() replaced by a wait that ends with the first error
AllDoneOrFailed == (\E s \in EngineServers : w[s].err) \/ (\A s \in EngineServers : w[s].pc = "done")

\* the error of a goroutine's function, if it returned one
AnyError == \E s \in EngineServers : w[s].err

AllDone == \A s \in EngineServers : w[s].pc = "done"

\* wg.Wait() of fetchUpdatesFromJellyfin returned without error:
\* synchronizeUpdatedUserData starts a goroutine per client
PhaseBBegin ==
    /\ phase = "A"
    /\ AllDone
    /\ ~AnyError
    /\ phase' = "B"
    /\ w' = [s \in EngineServers |-> [w[s] EXCEPT !.pc = "query"]]
    /\ UNCHANGED <<storeVars, now, diffVars, outerVars, remote, accepted, curType, counter, errs>>

\* synchronizeSingleUpdatedUserData up to the loop: the diff query; nothing
\* to write sets the watermark to the current time
Query(s) ==
    /\ phase = "B"
    /\ w[s].pc = "query"
    /\ \E updated \in WithUpdatedUserData(curType, s) :
          IF Len(updated) = 0
          THEN /\ state' = UpsertState(state, s, curType, Unix(now))
               /\ w' = [w EXCEPT ![s] = [@ EXCEPT !.pc = "done"]]
          ELSE /\ w' = [w EXCEPT ![s] = [@ EXCEPT !.pc = "write", !.updated = updated,
                                                  !.idx = 1, !.lowestTimestamp = MaxInt64]]
               /\ UNCHANGED state
    /\ UNCHANGED <<movies, episodes, changelog, now, diffVars, outerVars, remote, accepted,
                   phase, curType, counter, errs>>

\* the date of the row at hand, whatever the rows before it had
DateAtHand(a, b) == a

\* if item.WatchedDate < lowestTimestamp { lowestTimestamp = item.WatchedDate }
Min(a, b) == IF a < b THEN a ELSE b

\* the code after the loop, moving the watermark whatever the loop met
AfterLoopAlways(st, s, lowestTimestamp, encounteredErrors) ==
    UpsertState(st, s, curType, WatermarkAfterWrites(lowestTimestamp))

\* the code after the loop: without errors the watermark goes to one second
\* before the lowest written date; the function returns errs
AfterLoop(st, s, lowestTimestamp, encounteredErrors) ==
    IF ~encounteredErrors
    THEN UpsertState(st, s, curType, WatermarkAfterWrites(lowestTimestamp))
    ELSE st

\* one round of the loop (and the code after the loop, once the list is
\* through); the server accepts the write, and a changelog row is inserted
WriteAccepted(s) ==
    /\ phase = "B"
    /\ w[s].pc = "write"
    /\ LET item == w[s].updated[w[s].idx]
           lowest == Min(item.WatchedDate, w[s].lowestTimestamp)
           last == w[s].idx = Len(w[s].updated)
       IN /\ \E i \in remote[s][curType] : i.ID = item.LocalID
          /\ remote' = [remote EXCEPT ![s][curType] =
                            ApplyUserData(@, item.LocalID, AsUserData(item))]
          /\ accepted' = Append(accepted, [server |-> s, itemID |-> item.LocalID,
                                           userData |-> AsUserData(item)])
          /\ changelog' = InsertChangelog(changelog, s, getChangelogData(item), now)
          /\ state' = IF last THEN AfterLoop(state, s, lowest, w[s].encounteredErrors)
                      ELSE state
          /\ w' = [w EXCEPT ![s] = [@ EXCEPT !.lowestTimestamp = lowest,
                      !.idx = @ + 1,
                      !.pc = IF last THEN "done" ELSE "write",
                      !.err = IF last THEN w[s].encounteredErrors ELSE FALSE]]
    /\ UNCHANGED <<movies, episodes, now, diffVars, outerVars, phase, curType, counter, errs>>

\* one round of the loop in which UpdateUserData returns an error (the
\* server is down, or no longer has the item)
WriteFails(s) ==
    /\ phase = "B"
    /\ w[s].pc = "write"
    /\ LET item == w[s].updated[w[s].idx]
           lowest == Min(item.WatchedDate, w[s].lowestTimestamp)
           last == w[s].idx = Len(w[s].updated)
       IN /\ state' = IF last THEN AfterLoop(state, s, lowest, TRUE) ELSE state
          /\ w' = [w EXCEPT ![s] = [@ EXCEPT !.lowestTimestamp = lowest,
                      !.idx = @ + 1,
                      !.encounteredErrors = TRUE,
                      !.pc = IF last THEN "done" ELSE "write",
                      !.err = last]]
    /\ UNCHANGED <<movies, episodes, changelog, now, diffVars, outerVars, remote, accepted,
                   phase, curType, counter, errs>>

\* syncMoviesWatchedState has returned (after Phase B, or with the error of
\* Phase A): syncEpisodesWatchedState starts its fetches
EpisodesBegin ==
    /\ phase \in {"A", "B"}
    /\ curType = ItemMovie
    /\ AllDone
    /\ phase = "A" => AnyError
    /\ phase' = "A"
    /\ curType' = ItemEpisode
    /\ w' = [s \in EngineServers |-> FreshWorker("fetch")]
    /\ errs' = errs \cup Returned
    /\ UNCHANGED <<storeVars, now, diffVars, outerVars, remote, accepted, counter>>

\* syncEpisodesWatchedState has returned: the deferred function counts the
\* call and releases the mutex
SyncOnceEnd ==
    /\ phase \in {"A", "B"}
    /\ curType = ItemEpisode
    /\ AllDone
    /\ phase = "A" => AnyError
    /\ phase' = "idle"
    /\ counter' = counter + 1
    /\ w' = [s \in EngineServers |-> IdleWorker]
    /\ curType' = ItemMovie
    /\ errs' = errs \cup Returned
    /\ UNCHANGED <<storeVars, now, diffVars, outerVars, remote, accepted>>

NextEngine ==
    \/ Tick
    \/ Play
    \/ RemoveItem
    \/ SyncOnceBegin
    \/ \E s \in EngineServers : Fetch(s)
    \/ \E s \in EngineServers : FetchFails(s)
    \/ PhaseBBegin
    \/ \E s \in EngineServers : Query(s)
    \/ \E s \in EngineServers : WriteAccepted(s)
    \/ \E s \in EngineServers : WriteFails(s)
    \/ EpisodesBegin
    \/ SyncOnceEnd

SpecEngine == InitEngine /\ [][NextEngine]_vars

-----------------------------------------------------------------------------
(* Properties of the engine *)

IDs(items) == {items[i].ID : i \in 1..Len(items)}

\* the goroutine of s has come to the end of the phase in this step
Finishes(s) == w[s].pc # "done" /\ w'[s].pc = "done"

\* Phase B for s ends in this step, and returns no error
PhaseBSucceeds(s) == phase = "B" /\ Finishes(s) /\ ~w'[s].err

LowestWatchedDate(updated) ==
    CHOOSE d \in {updated[i].WatchedDate : i \in 1..Len(updated)} :
        \A i \in 1..Len(updated) : d <= updated[i].WatchedDate

FailedWriteKeepsWatermark ==
    /\ [][\A s \in EngineServers, t \in ItemTypes :
             state'[s, t] # state[s, t] =>
                 /\ phase = "B" /\ t = curType
                 /\ Finishes(s)
                 /\ ~w'[s].encounteredErrors]_vars
    /\ [](\A s \in EngineServers :
             (phase = "B" /\ w[s].pc = "done" /\ w[s].encounteredErrors) => w[s].err)

\* a Phase B is through in which one write was accepted and another failed,
\* and whose lowest date would have moved the watermark
FailedWriteWitness ==
    \E s \in EngineServers :
        /\ phase = "B"
        /\ w[s].pc = "done"
        /\ w[s].encounteredErrors
        /\ w[s].lowestTimestamp > 1
        /\ \E i \in 1..Len(accepted) : accepted[i].server = s
        /\ state[s, curType] # w[s].lowestTimestamp - 1

ChangelogOf(s) ==
    LET OfServer(r) == r.server = s
        rows == SelectSeq(changelog, OfServer)
    IN [i \in 1..Len(rows) |->
           [itemID |-> rows[i].local_id,
            userData |-> [PlaybackPositionTicks |-> rows[i].new_watched_position_ticks,
                          PlayedPercentage |-> rows[i].new_watched_progress,
                          LastPlayedDate |-> Unix(rows[i].new_watched_date),
                          IsFavorite |-> rows[i].new_is_favorite]]]

AcceptedBy(s) ==
    LET OfServer(r) == r.server = s
        rows == SelectSeq(accepted, OfServer)
    IN [i \in 1..Len(rows) |-> [itemID |-> rows[i].itemID, userData |-> rows[i].userData]]

IsPrefix(a, b) == Len(a) <= Len(b) /\ \A i \in 1..Len(a) : a[i] = b[i]

FetchedItemsAreKept ==
    \A s \in EngineServers :
        (phase = "A" /\ w[s].pc = "done" /\ ~w[s].err) =>
            \A i \in 1..Len(w[s].items) :
                \E r \in Table(curType) : /\ r.server = s
                                          /\ r.local_id = w[s].items[i].ID
                                          /\ r.last_seen >= w[s].start.unix

\* a full fetch for s returns without error in this step, and brings no item
\* that was not stored
FullFetchOfSubset(s) ==
    /\ phase = "A"
    /\ Finishes(s)
    /\ ~w'[s].err
    /\ ~IsDelta(w'[s].opts)
    /\ IDs(w'[s].items) \subseteq {r.local_id : r \in {x \in Table(curType) : x.server = s}}

\* the rows of the item type in work, after the step
TableAfter == IF curType = ItemMovie THEN movies' ELSE episodes'

OthersUntouched(s) ==
    /\ {r \in movies : r.server # s} = {r \in movies' : r.server # s}
    /\ {r \in episodes : r.server # s} = {r \in episodes' : r.server # s}

DeltaFetchPrunesNothing ==
    \A s \in EngineServers :
        (phase = "A" /\ w[s].pc = "done" /\ ~w[s].err /\ IsDelta(w[s].opts)) =>
            w[s].removed \ IDs(w[s].items) = {}

-----------------------------------------------------------------------------
(* The engine started one second later, and running for one second more:    *)
(* every watched date is then above 1, and a watermark one second below a    *)
(* watched date is a positive time.                                          *)

InitEngineLater ==
    /\ movies = {}
    /\ episodes = {}
    /\ changelog = <<>>
    /\ state = [s \in EngineServers, t \in ItemTypes |-> 0]
    /\ now = 2
    /\ got = NoResult
    /\ diffType = ItemMovie
    /\ remote = [s \in EngineServers |->
                    [t \in ItemTypes |-> IF t = ItemMovie THEN Library(s, t) ELSE {}]]
    /\ accepted = <<>>
    /\ phase = "idle"
    /\ curType = ItemMovie
    /\ w = [s \in EngineServers |-> IdleWorker]
    /\ counter = 0
    /\ errs = {}
    /\ SchedAtRest
    /\ ClientAtRest
    /\ DaemonAtRest
    /\ RunAtRest
    /\ LibAtRest

TickLater ==
    /\ now < MaxTime + 1
    /\ now' = now + 1
    /\ UNCHANGED <<storeVars, diffVars, outerVars, engineVars>>

NextEngineLater ==
    \/ TickLater
    \/ Play
    \/ RemoveItem
    \/ SyncOnceBegin
    \/ \E s \in EngineServers : Fetch(s)
    \/ \E s \in EngineServers : FetchFails(s)
    \/ PhaseBBegin
    \/ \E s \in EngineServers : Query(s)
    \/ \E s \in EngineServers : WriteAccepted(s)
    \/ \E s \in EngineServers : WriteFails(s)
    \/ EpisodesBegin
    \/ SyncOnceEnd

SpecEngineLater == InitEngineLater /\ [][NextEngineLater]_vars

\* the writes the server has accepted, as a set
WrittenTo(s) == {AcceptedBy(s)[i] : i \in 1..Len(AcceptedBy(s))}

\* Phase B has written a batch to s without failure and has set the watermark
\* of movies one second below the lowest date written; the server still holds
\* the items as written
WroteBatch(s) ==
    /\ WrittenTo(s) # {}
    /\ state[s, ItemMovie] > 0
    /\ \A a \in WrittenTo(s) : state[s, ItemMovie] < a.userData.LastPlayedDate.unix
    /\ \E a \in WrittenTo(s) : state[s, ItemMovie] = a.userData.LastPlayedDate.unix - 1
    /\ \A a \in WrittenTo(s) :
          \E i \in remote[s][ItemMovie] : i.ID = a.itemID /\ i.UserData = a.userData

\* the next fetch of movies from s is a delta fetch and returns in this step
DeltaFetchAfterWrites(s) ==
    /\ WroteBatch(s)
    /\ phase = "A"
    /\ curType = ItemMovie
    /\ Finishes(s)
    /\ ~w'[s].err
    /\ IsDelta(w'[s].opts)

\* C15 as stated: the delta fetch that follows a batch of writes to s asks
\* for the items played since the watermark, returns every item written, and
\* leaves the rows of s for these items with the watched_date written.
DeltaSeesWrittenItems ==
    [][\A s \in EngineServers :
          DeltaFetchAfterWrites(s) =>
              /\ w'[s].opts.Since = <<Unix(state[s, ItemMovie])>>
              /\ \A a \in WrittenTo(s) :
                    /\ a.itemID \in IDs(w'[s].items)
                    /\ \E r \in movies' :
                          /\ r.server = s
                          /\ r.local_id = a.itemID
                          /\ r.watched_date = a.userData.LastPlayedDate.unix]_vars

\* the goroutines of the item type in work have all returned
TypeDone == phase \in {"A", "B"} /\ AllDone /\ (phase = "A" => AnyError)

\* the calls of UpsertState that s has made for the item type in work: one
\* when its Phase B found nothing to write, or wrote everything without an
\* error; none when a write failed, or when Phase B was not started
UpsertStateCalls(s) == IF phase = "B" /\ w[s].pc = "done" /\ ~w[s].err THEN 1 ELSE 0

\* every row of the diff has been handed to UpdateUserData
AllWritesIssued(s) == w'[s].updated = <<>> \/ w'[s].idx = Len(w'[s].updated) + 1

LeavesFailedPhaseA ==
    /\ phase = "A"
    /\ AnyError
    /\ phase' # "A" \/ curType' # curType

\* C17: when Phase A of an item type returns an error, the goroutine of every
\* server has returned (those of the other servers without an error); the
\* error of each failed server is among the errors SyncOnce has collected,
\* and stays there until SyncOnce returns; and after movies SyncOnce goes on
\* to fetch episodes from every server.
PhaseAFailureIsCollected ==
    [][/\ LeavesFailedPhaseA =>
            /\ \A s \in EngineServers : w[s].pc = "done"
            /\ \A s \in EngineServers :
                  w[s].err => [type |-> curType, phase |-> "A", server |-> s] \in errs'
            /\ curType = ItemMovie =>
                  /\ phase' = "A"
                  /\ curType' = ItemEpisode
                  /\ \A s \in EngineServers : w'[s].pc = "fetch"
            /\ curType = ItemEpisode => phase' = "idle"
       /\ phase # "idle" => errs \subseteq errs']_vars

\* SyncOnce has returned the error of one server's movie fetch and nothing
\* else; the other server's movies are stored, and the episodes of both
\* servers have been through both phases
PhaseAFailureWitness ==
    \E s \in EngineServers :
        /\ phase = "idle"
        /\ counter > 0
        /\ errs = {[type |-> ItemMovie, phase |-> "A", server |-> s]}
        /\ \E r \in movies : r.server # s
        /\ \A x \in EngineServers : state[x, ItemEpisode] > 0

\* C18 as stated: an error of one server in Phase A does not keep Phase B of
\* the same item type from running for the servers whose Phase A succeeded:
\* SyncOnce never leaves the item type from Phase A.
PhaseBRunsAfterPhaseAError ==
    [][~(/\ LeavesFailedPhaseA
         /\ \E s \in EngineServers : ~w[s].err)]_vars

\* the goroutines of Phase A are at their fetch or have returned; those of
\* Phase B are at the diff query, in the loop of writes, or have returned
InPhaseA(s) == w[s].pc = "fetch"

InPhaseB(s) == w[s].pc \in {"query", "write"}

\* C24: within one SyncOnce, while a server's Phase A worker of an item type
\* is still at work no server's Phase B of that type has started, and the
\* step that starts Phase B finds every Phase A worker returned; SyncOnce
\* starts with movies, and the step that starts the episodes finds every
\* worker of the movies returned.
PhaseOrder ==
    /\ [](\A s \in EngineServers :
            /\ InPhaseA(s) => phase = "A" /\ \A x \in EngineServers : ~InPhaseB(x)
            /\ InPhaseB(s) => phase = "B" /\ \A x \in EngineServers : ~InPhaseA(x))
    /\ [][/\ (phase = "A" /\ phase' = "B") =>
                /\ curType' = curType
                /\ \A s \in EngineServers : w[s].pc = "done"
          /\ (phase = "idle" /\ phase' # "idle") => (phase' = "A" /\ curType' = ItemMovie)
          /\ (phase # "idle" /\ curType' # curType) =>
                /\ curType = ItemMovie \/ phase' = "idle"
                /\ \A s \in EngineServers : w[s].pc = "done"]_vars

\* Phase B of the movies is under way: one server is in its loop of writes,
\* and the rows of every server's fetch are in the table
PhaseOrderWitness ==
    /\ phase = "B"
    /\ curType = ItemMovie
    /\ \E s \in EngineServers : w[s].pc = "write"
    /\ \A x \in EngineServers : \E r \in movies : r.server = x

-----------------------------------------------------------------------------
(* SpecPhaseB: synchronizeUpdatedUserData alone, on tables that hold two    *)
(* items of every server, so that a diff has rows with different dates.     *)

PhaseBSlots == EngineServers \X {"1", "2"}

\* what the items have been played at: never, or at second 1..MaxDate + 1
PhaseBUserDatas ==
    {[LastPlayedDate |-> d, PlayedPercentage |-> 50, PlaybackPositionTicks |-> 1,
      IsFavorite |-> FALSE] : d \in LastPlayedDates \cup {Unix(MaxDate + 1)}}

\* Phase A has stored every server's catalog; the goroutines of Phase B are
\* about to run their diff query
InitPhaseB ==
    /\ curType \in ItemTypes
    /\ \E cat \in [PhaseBSlots -> Identities(curType) \X PhaseBUserDatas] :
          /\ movies = IF curType = ItemMovie THEN InsertAll(ItemMovie, cat, EngineServers) ELSE {}
          /\ episodes = IF curType = ItemEpisode THEN InsertAll(ItemEpisode, cat, EngineServers) ELSE {}
          /\ remote = [s \in EngineServers |->
                          [t \in ItemTypes |-> IF t = curType THEN CatalogOf(cat, s) ELSE {}]]
    /\ changelog = <<>>
    /\ \E last \in {0, MaxTime} : state = [s \in EngineServers, t \in ItemTypes |-> last]
    /\ now = 1
    /\ got = NoResult
    /\ diffType = ItemMovie
    /\ accepted = <<>>
    /\ phase = "B"
    /\ w = [s \in EngineServers |-> FreshWorker("query")]
    /\ counter = 0
    /\ errs = {}
    /\ SchedAtRest
    /\ ClientAtRest
    /\ DaemonAtRest
    /\ RunAtRest
    /\ LibAtRest

NextPhaseB ==
    \/ Tick
    \/ \E s \in EngineServers : Query(s)
    \/ \E s \in EngineServers : WriteAccepted(s)
    \/ \E s \in EngineServers : WriteFails(s)

SpecPhaseB == InitPhaseB /\ [][NextPhaseB]_vars

\* the time that synchronizeSingleUpdatedUserData hands to UpsertState when
\* it returns without error: time.Now() from the branch of the empty list,
\* time.Unix(lowestTimestamp-1, 0) after the loop
HandedToUpsertState(s) ==
    IF w[s].pc = "query" THEN now ELSE LowestWatchedDate(w[s].updated) - 1

-----------------------------------------------------------------------------
(* SpecCycle: one call of SyncOnce, in a process that has completed any     *)
(* number of calls before it.                                               *)

MaxCounter == 4    \* calls of SyncOnce completed before the one examined

\* an item as somebody left it who played it at second 1
PlayedOnce(i) ==
    [i EXCEPT !.UserData = [LastPlayedDate |-> Unix(1), PlayedPercentage |-> 50,
                            PlaybackPositionTicks |-> 1, IsFavorite |-> FALSE]]

\* SyncOnce has taken the mutex and started the fetches of the movies; the
\* watermarks are what earlier cycles left, and some of the movies have
\* been played
InitCycle ==
    /\ movies = {}
    /\ episodes = {}
    /\ changelog = <<>>
    /\ state \in [EngineServers \X ItemTypes -> {0, 1}]
    /\ now = 1
    /\ got = NoResult
    /\ diffType = ItemMovie
    /\ \E played \in SUBSET {"1", "3"} :
          remote = [s \in EngineServers |->
                       [t \in ItemTypes |->
                           IF t = ItemMovie
                           THEN {IF i.ID \in played THEN PlayedOnce(i) ELSE i : i \in Library(s, t)}
                           ELSE {}]]
    /\ accepted = <<>>
    /\ phase = "A"
    /\ curType = ItemMovie
    /\ w = [s \in EngineServers |-> FreshWorker("fetch")]
    /\ counter \in 0..MaxCounter
    /\ errs = {}
    /\ SchedAtRest
    /\ ClientAtRest
    /\ DaemonAtRest
    /\ RunAtRest
    /\ LibAtRest

NextCycle ==
    \/ Tick
    \/ \E s \in EngineServers : Fetch(s)
    \/ \E s \in EngineServers : FetchFails(s)
    \/ PhaseBBegin
    \/ \E s \in EngineServers : Query(s)
    \/ \E s \in EngineServers : WriteAccepted(s)
    \/ \E s \in EngineServers : WriteFails(s)
    \/ EpisodesBegin
    \/ SyncOnceEnd

SpecCycle == InitCycle /\ [][NextCycle]_vars

\* the goroutine of s has fetched in the Phase A that is under way
Fetched(s) == phase = "A" /\ w[s].pc = "done" /\ ~w[s].err

-----------------------------------------------------------------------------
(* The scheduler: App.Sync, the callers of App.SyncOnce, the webhook *)

restVars == <<storeVars, now, diffVars, remote, accepted, phase, curType, w, errs,
              clientVars, daemonVars, runVars, libVars>>

InitSched ==
    /\ movies = {}
    /\ episodes = {}
    /\ changelog = <<>>
    /\ state = [s \in EngineServers, t \in ItemTypes |-> 0]
    /\ now = 1
    /\ got = NoResult
    /\ diffType = ItemMovie
    /\ remote = [s \in EngineServers |-> [t \in ItemTypes |-> {}]]
    /\ accepted = <<>>
    /\ phase = "idle"
    /\ curType = ItemMovie
    /\ w = [s \in EngineServers |-> IdleWorker]
    /\ counter = 0
    /\ errs = {}
    /\ SchedAtRest
    /\ ClientAtRest
    /\ DaemonAtRest
    /\ RunAtRest
    /\ LibAtRest

\* a Lock that never waits
LockNeverWaits(mu) == TRUE

\* sync.Mutex.Lock returns once the mutex is unlocked
CanLock(mu) == mu = Unlocked

\* the webhook's handler: a POST puts a request on the channel, and waits
\* while the channel is full
Post ==
    /\ ~ctxDone
    /\ posted < MaxEvents
    /\ Len(hook) < 1
    /\ hook' = Append(hook, [Source |-> "webhook", Response |-> NilChan])
    /\ posted' = posted + 1
    /\ UNCHANGED <<restVars, counter, closed, pc, event, cooldown, timer, mutex, ctxDone>>

\* Sync: the call of SyncOnce before the loop
SyncStart ==
    /\ pc["Sync"] = "start"
    /\ pc' = [pc EXCEPT !["Sync"] = "lock"]
    /\ UNCHANGED <<restVars, counter, hook, closed, posted, event, cooldown, timer, mutex, ctxDone>>

\* what a receive from the channel yields: the request at its head, or the
\* zero value once the channel is closed and empty
Received == IF hook # <<>> THEN Head(hook) ELSE ZeroEvent

\* case event := <-hook, and the CompareAndSwap succeeds: the cooldown starts
\* and its goroutine waits for cooldownCtx
AcceptEvent ==
    /\ pc["Sync"] = "select"
    /\ hook # <<>> \/ closed
    /\ counter < MaxSyncCalls
    /\ ~cooldown
    /\ event' = Received
    /\ hook' = IF hook # <<>> THEN Tail(hook) ELSE hook
    /\ cooldown' = TRUE
    /\ timer' = "waiting"
    /\ pc' = [pc EXCEPT !["Sync"] = "respond"]
    /\ UNCHANGED <<restVars, counter, closed, posted, mutex, ctxDone>>

\* the select after it: nobody receives from a nil Response, so the second
\* passes ("hanging goroutine") and SyncOnce is called
RespondTimesOut ==
    /\ pc["Sync"] = "respond"
    /\ event.Response = NilChan
    /\ pc' = [pc EXCEPT !["Sync"] = "lock"]
    /\ UNCHANGED <<restVars, counter, hook, closed, posted, event, cooldown, timer, mutex, ctxDone>>

\* case event := <-hook, and the CompareAndSwap fails: Sync goes to send
\* "too many requests" on event.Response, outside any select
RejectEvent ==
    /\ pc["Sync"] = "select"
    /\ hook # <<>> \/ closed
    /\ cooldown
    /\ event' = Received
    /\ hook' = IF hook # <<>> THEN Tail(hook) ELSE hook
    /\ pc' = [pc EXCEPT !["Sync"] = "reject"]
    /\ UNCHANGED <<restVars, counter, closed, posted, cooldown, timer, mutex, ctxDone>>

\* a tick that is served only outside the cooldown
TickerFiresOutsideCooldown ==
    /\ pc["Sync"] = "select"
    /\ counter < MaxSyncCalls
    /\ ~cooldown
    /\ pc' = [pc EXCEPT !["Sync"] = "lock"]
    /\ UNCHANGED <<restVars, counter, hook, closed, posted, event, cooldown, timer, mutex, ctxDone>>

\* case <-ticker.C
TickerFires ==
    /\ pc["Sync"] = "select"
    /\ counter < MaxSyncCalls
    /\ pc' = [pc EXCEPT !["Sync"] = "lock"]
    /\ UNCHANGED <<restVars, counter, hook, closed, posted, event, cooldown, timer, mutex, ctxDone>>

\* case <-ctx.Done()
SyncReturns ==
    /\ pc["Sync"] = "select"
    /\ ctxDone
    /\ pc' = [pc EXCEPT !["Sync"] = "returned"]
    /\ UNCHANGED <<restVars, counter, hook, closed, posted, event, cooldown, timer, mutex, ctxDone>>

\* the cooldown's goroutine: cooldownCtx is done (its time has passed, or the
\* daemon's context is cancelled) and the flag is cleared
CooldownEnds ==
    /\ timer = "waiting"
    /\ cooldown' = FALSE
    /\ timer' = "none"
    /\ UNCHANGED <<restVars, counter, hook, closed, posted, pc, event, mutex, ctxDone>>

\* somebody else calls SyncOnce
OtherCalls ==
    /\ pc["other"] = "idle"
    /\ counter < MaxSyncCalls
    /\ pc' = [pc EXCEPT !["other"] = "lock"]
    /\ UNCHANGED <<restVars, counter, hook, closed, posted, event, cooldown, timer, mutex, ctxDone>>

\* SyncOnce: a.mutex.Lock()
Lock(c) ==
    /\ pc[c] = "lock"
    /\ CanLock(mutex)
    /\ mutex' = c
    /\ pc' = [pc EXCEPT ![c] = "movies"]
    /\ UNCHANGED <<restVars, counter, hook, closed, posted, event, cooldown, timer, ctxDone>>

\* SyncOnce: syncMoviesWatchedState
SyncMovies(c) ==
    /\ pc[c] = "movies"
    /\ pc' = [pc EXCEPT ![c] = "episodes"]
    /\ UNCHANGED <<restVars, counter, hook, closed, posted, event, cooldown, timer, mutex, ctxDone>>

\* SyncOnce: syncEpisodesWatchedState, and the deferred function
SyncEpisodes(c) ==
    /\ pc[c] = "episodes"
    /\ counter' = counter + 1
    /\ mutex' = Unlocked
    /\ pc' = [pc EXCEPT ![c] = IF c = "Sync" THEN "select" ELSE "idle"]
    /\ UNCHANGED <<restVars, hook, closed, posted, event, cooldown, timer, ctxDone>>

\* runDaemon after the signal: cancel()
Cancel ==
    /\ ~ctxDone
    /\ ctxDone' = TRUE
    /\ UNCHANGED <<restVars, counter, hook, closed, posted, pc, event, cooldown, timer, mutex>>

\* runDaemon after the signal: close(webhookRequests)
CloseHook ==
    /\ ctxDone
    /\ ~closed
    /\ closed' = TRUE
    /\ UNCHANGED <<restVars, counter, hook, posted, pc, event, cooldown, timer, mutex, ctxDone>>

\* the steps of the goroutine that runs Sync
SyncSteps ==
    \/ SyncStart
    \/ AcceptEvent
    \/ RespondTimesOut
    \/ RejectEvent
    \/ TickerFires
    \/ SyncReturns
    \/ Lock("Sync")
    \/ SyncMovies("Sync")
    \/ SyncEpisodes("Sync")

NextSched ==
    \/ Post
    \/ SyncSteps
    \/ CooldownEnds
    \/ OtherCalls
    \/ Lock("other")
    \/ SyncMovies("other")
    \/ SyncEpisodes("other")
    \/ Cancel
    \/ CloseHook

SpecSched == InitSched /\ [][NextSched]_vars

\* a goroutine that can run does run
FairSched == SpecSched /\ WF_vars(SyncSteps)

-----------------------------------------------------------------------------
(* Properties of the scheduler *)

InCycle == {c \in Callers : pc[c] \in {"movies", "episodes"}}

\* C1: whatever the order of ticks, accepted requests and other calls, at
\* most one caller is inside the cycle of SyncOnce: who calls while a cycle
\* runs waits at the mutex until the cycle has ended.
AtMostOneCycle ==
    /\ Cardinality(InCycle) <= 1
    /\ \A c \in InCycle : mutex = c

\* Sync has accepted a request and waits at the mutex while the cycle of
\* another caller runs
AtMostOneCycleWitness ==
    /\ pc["Sync"] = "lock"
    /\ event.Source = "webhook"
    /\ cooldown
    /\ pc["other"] \in {"movies", "episodes"}

\* C2 as stated, for the requests after the first: a request that is taken
\* from the channel during the cooldown gets its rejection, that is, the
\* send of "too many requests" comes to an end and Sync is back at its select.
RejectionIsDelivered == (pc["Sync"] = "reject") ~> (pc["Sync"] = "select")

\* C19 as stated, for cancellation: after a request has been rejected during
\* the cooldown, Sync is back at its select and serves what comes later, so
\* that once the daemon's context is cancelled Sync returns.
CancellationServedAfterRejection ==
    (pc["Sync"] = "reject" /\ event.Source = "webhook" /\ ctxDone) ~> (pc["Sync"] = "returned")

\* the status the handler has answered each POST with: it writes 200 right
\* after the send on the channel
Answered == [i \in 1..posted |-> 200]

\* C20 as stated: the request of every POST answered so far carries a reply
\* channel, on which the handler hears whether the request was accepted; a
\* request that Sync rejects has not been answered with 200.
HandlerWaitsForReply ==
    /\ \A i \in 1..Len(hook) : hook[i].Response # NilChan
    /\ (pc["Sync"] \in {"respond", "reject"} /\ event.Source = "webhook") =>
            event.Response # NilChan
    /\ (pc["Sync"] = "reject" /\ event.Source = "webhook") =>
            \E i \in 1..posted : Answered[i] # 200

-----------------------------------------------------------------------------
(* SpecStore: the snapshot tables under InsertMovies / InsertEpisodes and the *)
(* prune, called in any order for two servers.                               *)

MaxBatch == 2      \* items of one batch

\* what a server can hand to the store: item 1 under either identity and
\* played or not (but not both changed at once), the other items as played
\* items under the first identity
StoreUserDatas == {u \in UserDatas : u.LastPlayedDate.unix <= 1 /\ u.PlaybackPositionTicks = 1}

StoreItems(server, type) ==
    {x \in {Item(id, i, u) : id \in DiffLocalIds(server), i \in Identities(type), u \in StoreUserDatas} :
        \/ x.ProviderIDs.IMDB # <<>> /\ ~x.UserData.LastPlayedDate.isZero
        \/ x.ID = "1" /\ (x.ProviderIDs.IMDB # <<>> \/ ~x.UserData.LastPlayedDate.isZero)}

Batches(server, type) ==
    UNION {[1..n -> StoreItems(server, type)] : n \in 0..MaxBatch}

\* the deferred tx.Rollback() of a batch that returned before tx.Commit()
\* succeeded: the table is the one before BeginTx
RollbackKeepsPartial(before, partial) == partial

Rollback(before, partial) == before

\* SQLiteJellyDb.InsertItems with the k-th insert (or, k = Len(items) + 1,
\* the commit) failing
InsertItemsFailing(tables, server, itemType, items, k, t) ==
    Rollback(tables, InsertItems(tables, server, itemType, SubSeq(items, 1, k - 1), t))

InitStore ==
    /\ movies = {}
    /\ episodes = {}
    /\ changelog = <<>>
    /\ state = [s \in EngineServers, t \in ItemTypes |-> 0]
    /\ now = 1
    /\ got = NoResult
    /\ diffType = ItemMovie
    /\ remote = [s \in EngineServers |-> [t \in ItemTypes |-> {}]]
    /\ accepted = <<>>
    /\ phase = "idle"
    /\ curType \in ItemTypes
    /\ w = [s \in EngineServers |-> IdleWorker]
    /\ counter = 0
    /\ errs = {}
    /\ SchedAtRest
    /\ ClientAtRest
    /\ DaemonAtRest
    /\ RunAtRest
    /\ LibAtRest

StoreTick ==
    /\ now < MaxTime
    /\ now' = now + 1
    /\ UNCHANGED <<storeVars, diffVars, outerVars, engineVars>>

\* the record of the last call: its server, its batch and what it returned
Called(s, at, items, k, err) ==
    [x \in EngineServers |->
        IF x = s THEN [IdleWorker EXCEPT !.pc = at, !.items = items, !.idx = k,
                                         !.err = err, !.start = Unix(now)]
        ELSE IdleWorker]

StoreInsert(s) ==
    \E items \in Batches(s, curType) :
        LET inserted == InsertItems(<<movies, episodes>>, s, curType, items, now)
        IN /\ movies' = inserted[1]
           /\ episodes' = inserted[2]
           /\ w' = Called(s, "stored", items, Len(items), FALSE)
           /\ UNCHANGED <<changelog, state, now, diffVars, outerVars, remote, accepted,
                          phase, curType, counter, errs>>

StoreInsertFails(s) ==
    \E items \in Batches(s, curType) : \E k \in 1..(Len(items) + 1) :
        LET kept == InsertItemsFailing(<<movies, episodes>>, s, curType, items, k, now)
        IN /\ movies' = kept[1]
           /\ episodes' = kept[2]
           /\ w' = Called(s, "failed", items, k, TRUE)
           /\ UNCHANGED <<changelog, state, now, diffVars, outerVars, remote, accepted,
                          phase, curType, counter, errs>>

StorePrune(s) ==
    LET pruned == RemoveItemsNotSeenSince(<<movies, episodes>>, s, curType, Unix(now))
    IN /\ movies' = pruned[1]
       /\ episodes' = pruned[2]
       /\ w' = Called(s, "pruned", <<>>, 0, FALSE)
       /\ UNCHANGED <<changelog, state, now, diffVars, outerVars, remote, accepted,
                      phase, curType, counter, errs>>

NextStore ==
    \/ StoreTick
    \/ \E s \in EngineServers : StoreInsert(s)
    \/ \E s \in EngineServers : StoreInsertFails(s)
    \/ \E s \in EngineServers : StorePrune(s)

SpecStore == InitStore /\ [][NextStore]_vars

-----------------------------------------------------------------------------
(* Properties of the upsert *)

\* the columns of a row that the INSERT statement names
Upserted(r) == [f \in DOMAIN r \ {"last_seen"} |-> r[f]]

ParamsOf(type, server, item) ==
    IF type = ItemEpisode THEN EpisodeToInsertEpisodeParam(server, item)
    ELSE MovieToInsertMovieParam(server, item)

\* the positions of a batch that no later position overwrites
LastOfItsId(items) ==
    {i \in 1..Len(items) : \A j \in (i + 1)..Len(items) : items[j].ID # items[i].ID}

\* C11: upserting the batch that was just upserted again, at any later time,
\* leaves both tables as they are; there is at most one row per (server,
\* local_id) after any sequence of upserts and prunes, and after an upsert the
\* row of each item of the batch holds the fields of the item's last
\* occurrence in the batch.
UpsertIdempotence ==
    /\ \A a, b \in movies \cup episodes :
          (a.server = b.server /\ a.local_id = b.local_id) => a = b
    /\ \A s \in EngineServers :
          w[s].pc = "stored" =>
            /\ InsertItems(<<movies, episodes>>, s, curType, w[s].items, now) = <<movies, episodes>>
            /\ \A i \in LastOfItsId(w[s].items) :
                  \E r \in Table(curType) : Upserted(r) = ParamsOf(curType, s, w[s].items[i])

\* a batch with the same item twice, with different fields, was upserted over
\* a row stored earlier
UpsertIdempotenceWitness ==
    \E s \in EngineServers :
        /\ w[s].pc = "stored"
        /\ Len(w[s].items) = 2
        /\ w[s].items[1].ID = w[s].items[2].ID
        /\ w[s].items[1].Name = w[s].items[2].Name
        /\ w[s].items[1] # w[s].items[2]
        /\ \E r \in Table(curType) :
              r.server = s /\ r.local_id = w[s].items[1].ID /\ r.last_seen < now

\* C12: a batch upsert that returns an error leaves both tables exactly as
\* they were before the call, whichever insert (or the commit) failed; one
\* that returns no error has stored every item of the batch.
BatchIsAtomic ==
    [][\A s \in EngineServers :
          /\ w'[s].pc = "failed" =>
                /\ w'[s].err
                /\ movies' = movies
                /\ episodes' = episodes
          /\ w'[s].pc = "stored" =>
                /\ ~w'[s].err
                /\ \A i \in 1..Len(w'[s].items) :
                      \E r \in (IF curType = ItemEpisode THEN episodes' ELSE movies') :
                          r.server = s /\ r.local_id = w'[s].items[i].ID]_vars

\* the second insert of a batch failed, and the item of the first insert,
\* which the store did not hold before, is not in the table
BatchIsAtomicWitness ==
    \E s \in EngineServers :
        /\ w[s].pc = "failed"
        /\ w[s].idx = 2
        /\ Len(w[s].items) = 2
        /\ ~\E r \in Table(curType) : r.server = s /\ r.local_id = w[s].items[1].ID
        /\ \E r \in Table(curType) : r.server = s

-----------------------------------------------------------------------------
(* SpecKey: the match key of two rows, one on dd and one on ez, with every   *)
(* combination of identifiers; ez has played its item, dd has not.           *)

KeyIdentities(type) ==
    {[Name |-> name,
      SeriesName |-> IF type = ItemEpisode THEN <<"S">> ELSE <<>>,
      SeasonName |-> IF type = ItemEpisode THEN <<"1">> ELSE <<>>,
      ProviderIDs |-> [IMDB |-> imdb, TMDB |-> tmdb, TVDB |-> tvdb],
      Runtime |-> 5] :
        name \in {<<"M">>, <<"N">>},
        imdb \in {<<>>, <<"t", "t", "7">>, <<"t", "t", "8">>},
        tmdb \in {<<>>, <<"3">>},
        tvdb \in {<<>>, <<"9">>}}

Unplayed == [LastPlayedDate |-> ZeroTime, PlayedPercentage |-> 0,
             PlaybackPositionTicks |-> 0, IsFavorite |-> FALSE]

PlayedAt(t) == [LastPlayedDate |-> Unix(t), PlayedPercentage |-> 50,
                PlaybackPositionTicks |-> 1, IsFavorite |-> FALSE]

InitKey ==
    /\ diffType \in ItemTypes
    /\ \E i, j \in KeyIdentities(diffType) :
          LET tables == InsertItems(InsertItems(<<{}, {}>>, "dd", diffType, <<Item("1", i, Unplayed)>>, 1),
                                    "ez", diffType, <<Item("3", j, PlayedAt(1))>>, 1)
          IN /\ movies = tables[1]
             /\ episodes = tables[2]
    /\ changelog = <<>>
    /\ state = [s \in DiffServers, t \in ItemTypes |-> 0]
    /\ now = 1
    /\ got = NoResult
    /\ remote = [s \in DiffServers |-> [t \in ItemTypes |-> {}]]
    /\ accepted = <<>>
    /\ phase = "idle"
    /\ curType = ItemMovie
    /\ w = [s \in DiffServers |-> IdleWorker]
    /\ counter = 0
    /\ errs = {}
    /\ SchedAtRest
    /\ ClientAtRest
    /\ DaemonAtRest
    /\ RunAtRest
    /\ LibAtRest

SpecKey == InitKey /\ [][NextDiff]_vars

\* the identifier the priority picks, kept apart from its rendering
Chosen(type, r) ==
    IF r.imdb_id.Valid THEN <<"imdb", r.imdb_id.Int64>>
    ELSE IF r.tmdb_id.Valid THEN <<"tmdb", r.tmdb_id.Int64>>
    ELSE IF type = ItemEpisode /\ r.tvdb_id.Valid THEN <<"tvdb", r.tvdb_id.Int64>>
    ELSE IF type = ItemEpisode THEN <<"name", r.name, r.series_name, r.season_name, r.runtime>>
    ELSE <<"name", r.name, r.runtime>>

IsPrefixOf(p, t) == Len(p) <= Len(t) /\ SubSeq(t, 1, Len(p)) = p

KeyPrefix(tag) ==
    IF tag = "imdb" THEN S_imdb ELSE IF tag = "tmdb" THEN S_tmdb
    ELSE IF tag = "tvdb" THEN S_tvdb ELSE S_name

\* C13: the match key of a row is determined by the identifier the priority
\* picks (imdb, else tmdb, else tvdb for episodes, else the name fallback) and
\* starts with that identifier's prefix; rows picked by a provider id have
\* equal keys only when they have the same kind of id with the same value; and
\* the diff query for dd pairs dd's row with ez's newer row exactly when the
\* two keys are equal.
MatchKeyByPriority ==
    \A a, b \in Table(diffType) :
        /\ IsPrefixOf(KeyPrefix(Chosen(diffType, a)[1]), MatchKeyOf(diffType, a))
        /\ Chosen(diffType, a) = Chosen(diffType, b) => MatchKeyOf(diffType, a) = MatchKeyOf(diffType, b)
        /\ (MatchKeyOf(diffType, a) = MatchKeyOf(diffType, b) /\ Chosen(diffType, a)[1] # "name")
              => Chosen(diffType, a) = Chosen(diffType, b)
        /\ (got.server = "dd" /\ a.server = "dd" /\ b.server = "ez")
              => ((got.rows # <<>>) <=> (MatchKeyOf(diffType, a) = MatchKeyOf(diffType, b)))

\* dd was queried; its row and ez's share the Tmdb id and the name, and are
\* kept apart by dd's Imdb id
MatchKeyByPriorityWitness ==
    /\ got.server = "dd"
    /\ got.rows = <<>>
    /\ \E a, b \in Table(diffType) :
          /\ a.server = "dd" /\ b.server = "ez"
          /\ a.imdb_id.Valid /\ ~b.imdb_id.Valid
          /\ a.tmdb_id.Valid /\ a.tmdb_id = b.tmdb_id
          /\ a.name = b.name

-----------------------------------------------------------------------------
(* SpecPages: the loop of Client.GetItems against a server that holds a    *)
(* list of items and answers each request with the page asked for.          *)

MaxItems == 5      \* items of the type on the server
PageLimits == {2, 3}   \* opts.Limit, scaled down from 25 and 500

\* an item of the list: its id, and when it was played last
ListItem(id, date) == [ID |-> id, UserData |-> [LastPlayedDate |-> date]]

PlayedDates == [n \in 0..MaxDate + 1 |-> IF n = 0 THEN ZeroTime ELSE Unix(n)]

\* the lists a server sorts by DatePlayed descending: the most recently
\* played first, the never played last
SortedLists ==
    UNION {{[i \in 1..n |-> ListItem(i, PlayedDates[d[i]])] :
               d \in {x \in [1..n -> 0..MaxDate + 1] : \A i \in 1..n - 1 : x[i] >= x[i + 1]}} :
           n \in 0..MaxItems}

\* GET /Users/{id}/Items?StartIndex=..&Limit=..: the items of the page, and
\* TotalRecordCount
ItemsResponse(list, startIndex, limit) ==
    [Items |-> SubSeq(list, startIndex + 1, Min(startIndex + limit, Len(list))),
     TotalRecordCount |-> Len(list)]

\* GetItems is called
InitPages ==
    /\ movies = {}
    /\ episodes = {}
    /\ changelog = <<>>
    /\ state = [s \in EngineServers, t \in ItemTypes |-> 0]
    /\ now = 1
    /\ got = NoResult
    /\ diffType = ItemMovie
    /\ remote = [s \in EngineServers |-> [t \in ItemTypes |-> {}]]
    /\ accepted = <<>>
    /\ phase = "idle"
    /\ curType = ItemMovie
    /\ w = [s \in EngineServers |-> IdleWorker]
    /\ counter = 0
    /\ errs = {}
    /\ SchedAtRest
    /\ DaemonAtRest
    /\ RunAtRest
    /\ LibAtRest
    /\ \E list \in SortedLists, limit \in PageLimits, start \in 0..1,
          since \in {<<>>} \cup {<<Unix(d)>> : d \in 1..MaxDate} :
          walk = [pc |-> "loop", list |-> list,
                  opts |-> [Limit |-> limit, Since |-> since, StartIndex |-> start],
                  startIndex |-> start, allMovies |-> <<>>, requests |-> 0]

\* the filter has met a page whose last item was played before opts.Since
ExceededTimeFilter(items, opts) ==
    /\ IsDelta(opts)
    /\ items # <<>>
    /\ TimeBefore(items[Len(items)].UserData.LastPlayedDate, opts.Since[1])

\* the loop ends on a short page only
ReachedEndOnShortPage(response, startIndex, opts) ==
    Len(response.Items) < opts.Limit

\* the condition that sets reachedEnd
ReachedEnd(response, startIndex, opts) ==
    \/ Len(response.Items) < opts.Limit
    \/ startIndex + Len(response.Items) >= response.TotalRecordCount
    \/ ExceededTimeFilter(response.Items, opts)

\* one round of the loop of GetItems: the request, the filter, the test for
\* the end
GetItemsRound ==
    /\ walk.pc = "loop"
    /\ LET response == ItemsResponse(walk.list, walk.startIndex, walk.opts.Limit)
       IN walk' = [walk EXCEPT
                      !.allMovies = @ \o FilterPage(response.Items, walk.opts),
                      !.startIndex = @ + walk.opts.Limit,
                      !.requests = @ + 1,
                      !.pc = IF ReachedEnd(response, walk.startIndex, walk.opts)
                             THEN "returned" ELSE "loop"]
    /\ UNCHANGED <<storeVars, now, diffVars, engineVars, schedVars, daemonVars, runVars, libVars>>

NextPages == GetItemsRound

SpecPages == InitPages /\ [][NextPages]_vars

\* the loop is not kept from running
FairPages == SpecPages /\ WF_vars(NextPages)

\* the items of the list from opts.StartIndex on
Listed == SubSeq(walk.list, walk.opts.StartIndex + 1, Len(walk.list))

ItemsOf(items) == {items[i] : i \in 1..Len(items)}

\* the k-th page of the walk, and whether the walk ends with it
PageOfWalk(k) ==
    ItemsResponse(walk.list, walk.opts.StartIndex + (k - 1) * walk.opts.Limit, walk.opts.Limit)

EndsWith(k) ==
    LET page == PageOfWalk(k).Items
        startIndex == walk.opts.StartIndex + (k - 1) * walk.opts.Limit
    IN \/ Len(page) < walk.opts.Limit
       \/ startIndex + Len(page) >= Len(walk.list)
       \/ /\ page # <<>>
          /\ walk.opts.Since # <<>>
          /\ TimeBefore(page[Len(page)].UserData.LastPlayedDate, walk.opts.Since[1])

\* the walk has ended with the first page that ends it
StoppedAtFirstEnd ==
    /\ walk.requests >= 1
    /\ EndsWith(walk.requests)
    /\ \A k \in 1..walk.requests - 1 : ~EndsWith(k)

\* C29: against a server whose list is sorted by DatePlayed descending, a
\* delta listing comes to its end; what it returns holds every listed item
\* played after `since` and no item played before it, and nothing that is
\* not listed; it has stopped at the first page whose last item was played
\* before `since`, or that was short or the final one.
DeltaListing ==
    /\ (walk.pc = "loop" /\ IsDelta(walk.opts)) ~> (walk.pc = "returned")
    /\ []((walk.pc = "returned" /\ IsDelta(walk.opts)) =>
            /\ \A i \in ItemsOf(Listed) :
                  TimeAfter(i.UserData.LastPlayedDate, walk.opts.Since[1]) =>
                      i \in ItemsOf(walk.allMovies)
            /\ \A i \in ItemsOf(walk.allMovies) :
                  /\ ~TimeBefore(i.UserData.LastPlayedDate, walk.opts.Since[1])
                  /\ i \in ItemsOf(Listed)
            /\ StoppedAtFirstEnd)

\* a delta listing has returned after its second page, which it has
\* filtered: some of the listed items, not all
DeltaListingWitness ==
    /\ walk.pc = "returned"
    /\ IsDelta(walk.opts)
    /\ walk.requests = 2
    /\ ExceededTimeFilter(PageOfWalk(2).Items, walk.opts)
    /\ Len(walk.allMovies) > walk.opts.Limit
    /\ Len(walk.allMovies) < Len(Listed)

\* C30: a full listing comes to its end; it returns the listed items from
\* opts.StartIndex to the last, each once and in the server's order; it has
\* stopped at the first page that was short or reached TotalRecordCount.
FullListing ==
    /\ (walk.pc = "loop" /\ ~IsDelta(walk.opts)) ~> (walk.pc = "returned")
    /\ []((walk.pc = "returned" /\ ~IsDelta(walk.opts)) =>
            /\ walk.allMovies = Listed
            /\ StoppedAtFirstEnd)

\* a full listing has returned after two pages, the second of them full
\* and the server's last
FullListingWitness ==
    /\ walk.pc = "returned"
    /\ ~IsDelta(walk.opts)
    /\ walk.requests = 2
    /\ Len(PageOfWalk(2).Items) = walk.opts.Limit
    /\ Len(walk.allMovies) = 2 * walk.opts.Limit

-----------------------------------------------------------------------------
(* SpecOnce: Run with --once: one call of SyncOnce, the metrics file, the   *)
(* exit code.                                                               *)

\* the exit code, had the inner err not shadowed the outer one
ExitCodeOfEither(err, metricsErr) == IF err \/ metricsErr THEN 1 ELSE 0

\* if err != nil { os.Exit(1) }; os.Exit(0), err being what SyncOnce returned
ExitCodeOf(err, metricsErr) == IF err THEN 1 ELSE 0

\* Run is at app.SyncOnce(ctx)
AtSyncOnce == counter = 0 /\ metricsFile = "none"

\* what somebody has played before the run
PlayBefore == AtSyncOnce /\ Play

\* err := app.SyncOnce(ctx): the call
CallSyncOnce == AtSyncOnce /\ SyncOnceBegin

\* if cfg.MetricsPath != "" { metrics.WriteMetrics(cfg.MetricsPath) }: no
\* path is configured, or the file is written, or writing it fails and the
\* error is logged
DumpMetrics ==
    /\ phase = "idle"
    /\ counter = 1
    /\ metricsFile = "none"
    /\ metricsFile' \in {"unset", "written", "failed"}
    /\ UNCHANGED <<storeVars, now, diffVars, engineVars, schedVars, clientVars, daemonVars, libVars, exitCode>>

\* os.Exit
Exit ==
    /\ exitCode = NoExit
    /\ metricsFile # "none"
    /\ exitCode' = ExitCodeOf(errs # {}, metricsFile = "failed")
    /\ UNCHANGED <<storeVars, now, diffVars, engineVars, schedVars, clientVars, daemonVars, libVars, metricsFile>>

\* the clock of the running process
TickOnce == exitCode = NoExit /\ Tick

NextOnce ==
    \/ TickOnce
    \/ PlayBefore
    \/ CallSyncOnce
    \/ \E s \in EngineServers : Fetch(s)
    \/ \E s \in EngineServers : FetchFails(s)
    \/ PhaseBBegin
    \/ \E s \in EngineServers : Query(s)
    \/ \E s \in EngineServers : WriteAccepted(s)
    \/ \E s \in EngineServers : WriteFails(s)
    \/ EpisodesBegin
    \/ SyncOnceEnd
    \/ DumpMetrics
    \/ Exit

SpecOnce == InitEngine /\ [][NextOnce]_vars

\* C23: with --once the process exits after exactly one call of SyncOnce has
\* returned, with code 1 when that call returned errors and with code 0 when
\* it returned none, whatever became of the metrics file; and SyncOnce is
\* called once only.
OneShotExitCode ==
    /\ [](exitCode # NoExit =>
            /\ counter = 1
            /\ phase = "idle"
            /\ exitCode = IF errs # {} THEN 1 ELSE 0)
    /\ [][phase = "idle" /\ phase' # "idle" => counter = 0]_vars

\* the process has exited with 0 although the metrics file could not be
\* written, after a cycle that wrote user data to a server
OneShotExitCodeWitness ==
    /\ exitCode = 0
    /\ metricsFile = "failed"
    /\ accepted # <<>>

-----------------------------------------------------------------------------
(* SpecDaemon: runDaemon from its start to its return: the goroutine of     *)
(* App.Sync, the webhook (Listen and the handlers of its requests), the     *)
(* cooldown's goroutine, and the shutdown after the signal.                 *)

\* runDaemon has not returned: the goroutines of the process run
Running == exit \in {"none", "waited"}

\* the counter of runDaemon's WaitGroup: Sync and Listen between their
\* wg.Add(1) and their deferred wg.Done()
WgCount ==
    (IF pc["Sync"] \notin {"start", "returned"} THEN 1 ELSE 0)
      + (IF listen \in {"serving", "stopping"} THEN 1 ELSE 0)

\* Listen: wg.Add(1), the mux, and the goroutine of ListenAndServe
ListenStart ==
    /\ listen = "start"
    /\ listen' = "serving"
    /\ UNCHANGED <<storeVars, now, diffVars, engineVars, schedVars, clientVars, runVars, libVars,
                   isShuttingDown, handler, exit>>

\* Listen: case err := <-errChan, the server could not be started
ListenFails ==
    /\ listen = "serving"
    /\ \A r \in Requests : handler[r] = "none"
    /\ listen' = "failed"
    /\ UNCHANGED <<storeVars, now, diffVars, engineVars, schedVars, clientVars, runVars, libVars,
                   isShuttingDown, handler, exit>>

\* Listen: case <-ctx.Done(): isShuttingDown.Store(true)
ListenStops ==
    /\ listen = "serving"
    /\ ctxDone
    /\ isShuttingDown' = TRUE
    /\ listen' = "stopping"
    /\ UNCHANGED <<storeVars, now, diffVars, engineVars, schedVars, clientVars, runVars, libVars,
                   handler, exit>>

\* Listen: server.Shutdown with a context that is cancelled already closes
\* the listeners and returns without waiting for the handlers under way;
\* Listen returns
ListenReturns ==
    /\ listen = "stopping"
    /\ listen' = "returned"
    /\ UNCHANGED <<storeVars, now, diffVars, engineVars, schedVars, clientVars, runVars, libVars,
                   isShuttingDown, handler, exit>>

ListenSteps == ListenStart \/ ListenFails \/ ListenStops \/ ListenReturns

\* a POST reaches the server while it listens: its handler builds syncRequest
Arrives(r) ==
    /\ handler[r] = "none"
    /\ listen \in {"serving", "stopping"}
    /\ handler' = [handler EXCEPT ![r] = "check"]
    /\ UNCHANGED <<storeVars, now, diffVars, engineVars, schedVars, clientVars, runVars, libVars,
                   isShuttingDown, listen, exit>>

\* the handler: if isShuttingDown.Load() { 503; return }
LoadsFlag(r) ==
    /\ handler[r] = "check"
    /\ handler' = [handler EXCEPT ![r] = IF isShuttingDown THEN "unavailable" ELSE "send"]
    /\ UNCHANGED <<storeVars, now, diffVars, engineVars, schedVars, clientVars, runVars, libVars,
                   isShuttingDown, listen, exit>>

\* the handler: eventChan <- syncRequest; w.WriteHeader(200).  The send
\* waits while the channel is full, and panics on a closed channel
Sends(r) ==
    /\ handler[r] = "send"
    /\ closed \/ Len(hook) < 1
    /\ IF closed
       THEN /\ handler' = [handler EXCEPT ![r] = "panic"]
            /\ UNCHANGED <<hook, posted>>
       ELSE /\ hook' = Append(hook, [Source |-> "webhook", Response |-> NilChan])
            /\ posted' = posted + 1
            /\ handler' = [handler EXCEPT ![r] = "ok"]
    /\ UNCHANGED <<storeVars, now, diffVars, engineVars, clientVars, runVars, libVars,
                   closed, pc, event, cooldown, timer, mutex, ctxDone,
                   isShuttingDown, listen, exit>>

HandlerSteps == \E r \in Requests : Arrives(r) \/ LoadsFlag(r) \/ Sends(r)

\* cooldownCtx is done from the start
CooldownCtxDoneAtOnce == TRUE

\* cooldownCtx is done: its timeout has passed, or the daemon's context,
\* from which it is derived, is cancelled
CooldownCtxDone == timer = "elapsed" \/ ctxDone

\* a.cooldownTimer passes after an accepted request
CooldownTimerElapses ==
    /\ timer = "waiting"
    /\ timer' = "elapsed"
    /\ UNCHANGED <<restVars, counter, hook, closed, posted, pc, event, cooldown, mutex, ctxDone>>

\* the cooldown's goroutine: <-cooldownCtx.Done(); a.cooldown.Store(false)
CooldownCleared ==
    /\ timer # "none"
    /\ CooldownCtxDone
    /\ cooldown' = FALSE
    /\ timer' = "none"
    /\ UNCHANGED <<restVars, counter, hook, closed, posted, pc, event, mutex, ctxDone>>

\* runDaemon: the goroutine of wg.Wait(), started after cancel(): the
\* counter is zero and gracefulExitDone is closed
WaitReturns ==
    /\ ctxDone
    /\ exit = "none"
    /\ WgCount = 0
    /\ exit' = "waited"
    /\ UNCHANGED <<storeVars, now, diffVars, engineVars, schedVars, clientVars, runVars, libVars,
                   isShuttingDown, handler, listen>>

\* runDaemon: the select after close(webhookRequests), case <-gracefulExitDone
GracefulExit ==
    /\ closed
    /\ exit = "waited"
    /\ exit' = "graceful"
    /\ UNCHANGED <<storeVars, now, diffVars, engineVars, schedVars, clientVars, runVars, libVars,
                   isShuttingDown, handler, listen>>

\* runDaemon: the select, case <-time.After(waitgroupTimeout)
ForcedExit ==
    /\ closed
    /\ Running
    /\ exit' = "forced"
    /\ UNCHANGED <<storeVars, now, diffVars, engineVars, schedVars, clientVars, runVars, libVars,
                   isShuttingDown, handler, listen>>

\* the goroutines of the running process
SyncGoroutine == Running /\ SyncSteps

ListenGoroutine == Running /\ ListenSteps

Handlers == Running /\ HandlerSteps

CooldownTimer == Running /\ CooldownTimerElapses

CooldownGoroutine == Running /\ CooldownCleared

\* runDaemon from the signal on: cancel(), the goroutine that waits,
\* close(webhookRequests), the select
Signal == Running /\ Cancel

Waiter == WaitReturns

CloseWebhookRequests == Running /\ CloseHook

NextDaemon ==
    \/ SyncGoroutine
    \/ ListenGoroutine
    \/ Handlers
    \/ CooldownTimer
    \/ CooldownGoroutine
    \/ Signal
    \/ Waiter
    \/ CloseWebhookRequests
    \/ GracefulExit
    \/ ForcedExit

SpecDaemon == InitSched /\ [][NextDaemon]_vars

\* a goroutine that can run does run, and time passes; the signal, the
\* requests and the forced exit may stay away
FairDaemon ==
    /\ SpecDaemon
    /\ WF_vars(SyncGoroutine)
    /\ WF_vars(ListenGoroutine)
    /\ WF_vars(Running /\ \E r \in Requests : LoadsFlag(r) \/ Sends(r))
    /\ WF_vars(CooldownTimer)
    /\ WF_vars(CooldownGoroutine)
    /\ WF_vars(Waiter)
    /\ WF_vars(CloseWebhookRequests)
    /\ WF_vars(GracefulExit)

-----------------------------------------------------------------------------
(* Properties of the daemon *)

\* C21 as stated, its second half: in whatever order the handlers under way
\* and the shutdown take their steps, no handler sends on the channel of
\* sync requests after runDaemon has closed it.
NoSendOnClosedChannel ==
    \A r \in Requests : handler[r] # "panic"

\* C22 as stated: once the daemon's context is cancelled while Sync is
\* counted in the WaitGroup, Sync returns (and calls wg.Done()) without the
\* forced exit having to end the process.
CancelledSyncReturns ==
    (ctxDone /\ exit = "none" /\ pc["Sync"] # "start")
        ~> (pc["Sync"] = "returned" \/ exit = "forced")

\* C27: the cooldown flag is set by an accepted request only, and an
\* accepted request finds it clear while a rejected one finds it set; once
\* set it is cleared by no step before a.cooldownTimer has passed or the
\* daemon's context is cancelled, whatever the sync it triggered does; and
\* from then on it is cleared, also while that sync still runs (as long as
\* the process runs).
CooldownWindow ==
    /\ [][/\ (~cooldown /\ cooldown') => (pc["Sync"] = "select" /\ pc'["Sync"] = "respond")
          /\ (pc["Sync"] = "select" /\ pc'["Sync"] = "respond") => (~cooldown /\ cooldown')
          /\ (pc["Sync"] = "select" /\ pc'["Sync"] = "reject") => (cooldown /\ cooldown')
          /\ (cooldown /\ ~cooldown') => (timer = "elapsed" \/ ctxDone)]_vars
    /\ (cooldown /\ (timer = "elapsed" \/ ctxDone)) ~> (~cooldown \/ ~Running)

\* the second request is accepted, after the cooldown of the first has
\* passed, and the cooldown of the first was cleared while its sync ran
CooldownWindowWitness ==
    /\ pc["Sync"] = "respond"
    /\ event.Source = "webhook"
    /\ posted = 2
    /\ hook = <<>>
    /\ cooldown
    /\ timer = "waiting"
    /\ ~ctxDone

\* C28 as stated: when the channel of sync requests is closed, Sync and
\* Listen have returned (the WaitGroup's counter is zero), or the grace
\* period has passed.
ClosedAfterWorkers ==
    closed => (WgCount = 0 \/ exit = "forced")

-----------------------------------------------------------------------------
(* SQLiteJellyDb.Migrate *)

\* what Scan leaves in currentVersion: the version of the first row; 0 when
\* the query fails or finds no row, the error being discarded
ScanVersion(rows, ok) == IF ok /\ rows # <<>> THEN rows[1] ELSE 0

\* the version the table records
Recorded == IF schemaVersionRows = <<>> THEN 0 ELSE schemaVersionRows[1]

\* the statements of a migration cannot run: the first one creates
\* schema_version without IF NOT EXISTS
MigrationFails(newVersion, schema) ==
    newVersion = 1 /\ \E i \in 1..Len(schema) : schema[i] = 1

\* a rollback that leaves the transaction's changes in the database
TxKeep(db, tx) == tx

\* tx.Rollback, and a Commit that fails: the database as it was
TxRollback(db, tx) == db

\* Migrate is called on a database at any version, a newer one included
InitMigrate ==
    /\ movies = {}
    /\ episodes = {}
    /\ changelog = <<>>
    /\ state = [s \in EngineServers, t \in ItemTypes |-> 0]
    /\ now = 1
    /\ got = NoResult
    /\ diffType = ItemMovie
    /\ remote = [s \in EngineServers |-> [t \in ItemTypes |-> {}]]
    /\ accepted = <<>>
    /\ phase = "idle"
    /\ curType = ItemMovie
    /\ w = [s \in EngineServers |-> IdleWorker]
    /\ counter = 0
    /\ errs = {}
    /\ SchedAtRest
    /\ ClientAtRest
    /\ DaemonAtRest
    /\ RunAtRest
    /\ UserAtRest
    /\ \E v \in 0..(schemaVersion + 1) :
          /\ dbSchema = [i \in 1..v |-> i]
          /\ schemaVersionRows = IF v = 0 THEN <<>> ELSE <<v>>
    /\ migrate = [pc |-> "start", currentVersion |-> 0, version |-> 0,
                  tx |-> NoTx, err |-> FALSE]

MigrateFrame ==
    UNCHANGED <<storeVars, now, diffVars, engineVars, schedVars, clientVars,
                daemonVars, runVars, userVars>>

\* a statement of the transaction has failed: Rollback, return the error
MigrateRollback ==
    /\ LET db == TxRollback(<<dbSchema, schemaVersionRows>>,
                            <<migrate.tx.schema, migrate.tx.rows>>)
       IN /\ dbSchema' = db[1]
          /\ schemaVersionRows' = db[2]
    /\ migrate' = [migrate EXCEPT !.pc = "failed", !.tx = NoTx, !.err = TRUE]

\* SELECT version FROM schema_version, and the test that ends Migrate early
MigrateRead ==
    /\ migrate.pc = "start"
    /\ \E ok \in BOOLEAN :
          LET currentVersion == ScanVersion(schemaVersionRows, ok)
          IN migrate' = [migrate EXCEPT
                            !.currentVersion = currentVersion,
                            !.version = currentVersion,
                            !.pc = IF currentVersion >= schemaVersion
                                   THEN "returned" ELSE "loop"]
    /\ UNCHANGED <<dbSchema, schemaVersionRows>>
    /\ MigrateFrame

\* the head of the loop, and BeginTx
MigrateBeginTx ==
    /\ migrate.pc = "loop"
    /\ \/ /\ migrate.version >= schemaVersion
          /\ migrate' = [migrate EXCEPT !.pc = "returned"]
       \/ /\ migrate.version < schemaVersion
          /\ migrate' = [migrate EXCEPT
                            !.pc = "exec",
                            !.tx = [open |-> TRUE, schema |-> dbSchema,
                                    rows |-> schemaVersionRows]]
       \/ /\ migrate.version < schemaVersion
          /\ migrate' = [migrate EXCEPT !.pc = "failed", !.err = TRUE]
    /\ UNCHANGED <<dbSchema, schemaVersionRows>>
    /\ MigrateFrame

\* tx.ExecContext(ctx, migrations[version])
MigrateExec ==
    /\ migrate.pc = "exec"
    /\ LET newVersion == migrate.version + 1
       IN \/ /\ ~MigrationFails(newVersion, migrate.tx.schema)
             /\ migrate' = [migrate EXCEPT
                               !.pc = "delete",
                               !.tx.schema = Append(@, newVersion)]
             /\ UNCHANGED <<dbSchema, schemaVersionRows>>
          \/ MigrateRollback
    /\ MigrateFrame

\* DELETE FROM schema_version
MigrateDelete ==
    /\ migrate.pc = "delete"
    /\ \/ /\ migrate' = [migrate EXCEPT !.pc = "insert", !.tx.rows = <<>>]
          /\ UNCHANGED <<dbSchema, schemaVersionRows>>
       \/ MigrateRollback
    /\ MigrateFrame

\* INSERT INTO schema_version (version) VALUES (newVersion)
MigrateInsert ==
    /\ migrate.pc = "insert"
    /\ \/ /\ migrate' = [migrate EXCEPT
                            !.pc = "commit",
                            !.tx.rows = Append(@, migrate.version + 1)]
          /\ UNCHANGED <<dbSchema, schemaVersionRows>>
       \/ MigrateRollback
    /\ MigrateFrame

\* tx.Commit, and the step of the loop
MigrateCommit ==
    /\ migrate.pc = "commit"
    /\ \/ /\ dbSchema' = migrate.tx.schema
          /\ schemaVersionRows' = migrate.tx.rows
          /\ migrate' = [migrate EXCEPT
                            !.pc = "loop", !.tx = NoTx, !.version = @ + 1]
       \/ MigrateRollback
    /\ MigrateFrame

NextMigrate ==
    \/ MigrateRead
    \/ MigrateBeginTx
    \/ MigrateExec
    \/ MigrateDelete
    \/ MigrateInsert
    \/ MigrateCommit

SpecMigrate == InitMigrate /\ [][NextMigrate]_vars

\* C31: the database changes only when a step commits, and then by the one
\* migration that follows the recorded version, the table holding that
\* step's index in its only row; the database holds the migrations 1..recorded
\* in ascending order; a step that fails leaves the database as it was and is
\* the last step; a database whose recorded version is the number of
\* migration files (or more) is not changed; Migrate returns without an error
\* only with every migration applied
MigrateSteps ==
    /\ [](/\ dbSchema = [i \in 1..Recorded |-> i]
          /\ Len(schemaVersionRows) <= 1
          /\ (migrate.pc = "returned" => Recorded >= schemaVersion))
    /\ [][/\ (<<dbSchema, schemaVersionRows>>' # <<dbSchema, schemaVersionRows>>) =>
                (/\ migrate.pc = "commit"
                 /\ Recorded < schemaVersion
                 /\ dbSchema' = Append(dbSchema, Recorded + 1)
                 /\ schemaVersionRows' = <<Recorded + 1>>)
          /\ (migrate'.pc = "failed") =>
                (/\ dbSchema' = dbSchema
                 /\ schemaVersionRows' = schemaVersionRows)
          /\ (migrate.pc = "failed") =>
                (UNCHANGED <<dbSchema, schemaVersionRows, migrate>>)
         ]_vars

\* Migrate was called on a database two versions behind and has applied the
\* two migrations it lacked
MigrateStepsWitness ==
    /\ migrate.pc = "returned"
    /\ migrate.currentVersion = schemaVersion - 2
    /\ dbSchema = [i \in 1..schemaVersion |-> i]
    /\ schemaVersionRows = <<schemaVersion>>

-----------------------------------------------------------------------------
(* Client.GetUserId *)

UserNames == {"alice", "Alice"}
UserIds == {"", "u1", "u2"}

\* the answers a server gives to GET /Users: up to two users
UserLists ==
    LET U == [Name : UserNames, ID : UserIds]
    IN {<<>>} \cup {<<u>> : u \in U} \cup {<<u, v>> : u \in U, v \in U}

\* GetUser: the first user of the list whose name is the name asked for
GetUser(list, name) ==
    LET hits == {i \in 1..Len(list) : list[i].Name = name}
    IN IF hits = {}
       THEN [err |-> TRUE, ID |-> ""]
       ELSE [err |-> FALSE, ID |-> list[CHOOSE i \in hits : \A j \in hits : i <= j].ID]

\* a client that looks the user up on every call
CachedNever(id) == FALSE

\* the test GetUserId makes of Client.userId
Cached(id) == id # ""

\* two goroutines call GetUserId on a client of a server with any user list
InitUser ==
    /\ movies = {}
    /\ episodes = {}
    /\ changelog = <<>>
    /\ state = [s \in EngineServers, t \in ItemTypes |-> 0]
    /\ now = 1
    /\ got = NoResult
    /\ diffType = ItemMovie
    /\ remote = [s \in EngineServers |-> [t \in ItemTypes |-> {}]]
    /\ accepted = <<>>
    /\ phase = "idle"
    /\ curType = ItemMovie
    /\ w = [s \in EngineServers |-> IdleWorker]
    /\ counter = 0
    /\ errs = {}
    /\ SchedAtRest
    /\ ClientAtRest
    /\ DaemonAtRest
    /\ RunAtRest
    /\ MigrateAtRest
    /\ \E list \in UserLists : users = [list |-> list, userName |-> "alice"]
    /\ userId = ""
    /\ clientMutex = Unlocked
    /\ getUserId = [c \in UserCallers |-> IdleCaller]
    /\ lookups = <<>>

UserFrame ==
    UNCHANGED <<storeVars, now, diffVars, engineVars, schedVars, clientVars,
                daemonVars, runVars, migrateVars, users>>

\* j.mutex.Lock()
UserLock(c) ==
    /\ getUserId[c].pc = "idle"
    /\ getUserId[c].calls < MaxCalls
    /\ clientMutex = Unlocked
    /\ clientMutex' = c
    /\ getUserId' = [getUserId EXCEPT ![c] = [pc |-> "locked", calls |-> @.calls + 1,
                                              id |-> "", err |-> FALSE, looked |-> FALSE]]
    /\ UNCHANGED <<userId, lookups>>
    /\ UserFrame

\* if j.userId != "" { return j.userId, nil }, or else the request of GetUsers
UserTest(c) ==
    /\ getUserId[c].pc = "locked"
    /\ IF Cached(userId)
       THEN /\ getUserId' = [getUserId EXCEPT ![c].pc = "idle", ![c].id = userId]
            /\ clientMutex' = Unlocked
            /\ UNCHANGED lookups
       ELSE /\ getUserId' = [getUserId EXCEPT ![c].pc = "lookup", ![c].looked = TRUE]
            /\ lookups' = Append(lookups, "inflight")
            /\ UNCHANGED clientMutex
    /\ UNCHANGED userId
    /\ UserFrame

\* GetUsers fails: return "", err
UserLookupFails(c) ==
    /\ getUserId[c].pc = "lookup"
    /\ getUserId' = [getUserId EXCEPT ![c].pc = "idle", ![c].err = TRUE]
    /\ lookups' = [lookups EXCEPT ![Len(lookups)] = "failed"]
    /\ clientMutex' = Unlocked
    /\ UNCHANGED userId
    /\ UserFrame

\* GetUsers answers: GetUser picks the user, GetUserId stores its ID
UserLookupAnswers(c) ==
    /\ getUserId[c].pc = "lookup"
    /\ LET user == GetUser(users.list, users.userName)
       IN IF user.err
          THEN /\ getUserId' = [getUserId EXCEPT ![c].pc = "idle", ![c].err = TRUE]
               /\ lookups' = [lookups EXCEPT ![Len(lookups)] = "notfound"]
               /\ UNCHANGED userId
          ELSE /\ userId' = user.ID
               /\ getUserId' = [getUserId EXCEPT ![c].pc = "idle", ![c].id = user.ID]
               /\ lookups' = [lookups EXCEPT ![Len(lookups)] = "ok"]
    /\ clientMutex' = Unlocked
    /\ UserFrame

NextUser ==
    \/ \E c \in UserCallers : UserLock(c)
    \/ \E c \in UserCallers : UserTest(c)
    \/ \E c \in UserCallers : UserLookupFails(c)
    \/ \E c \in UserCallers : UserLookupAnswers(c)

SpecUser == InitUser /\ [][NextUser]_vars

\* the calls that have returned
UserReturned == {c \in UserCallers : getUserId[c].pc = "idle" /\ getUserId[c].calls > 0}

\* the user of the list with exactly the configured name, if there is one
NamedUsers == {i \in 1..Len(users.list) : users.list[i].Name = users.userName}

\* what holds of GetUserId whatever the id of the user is: at most one
\* lookup is in flight, and its caller holds the mutex; a lookup that fails
\* or finds no user of the name caches nothing; a list without a user of
\* exactly the name yields an error; a call that returns without an error
\* returns the id of a user of the name
UserLookupIsSerialized ==
    /\ [](/\ Cardinality({c \in UserCallers : getUserId[c].pc = "lookup"}) <= 1
          /\ \A c \in UserCallers : getUserId[c].pc = "lookup" => clientMutex = c
          /\ (userId # "") => (\E i \in 1..Len(lookups) : lookups[i] = "ok")
          /\ \A c \in UserReturned :
                /\ (NamedUsers = {}) => getUserId[c].err
                /\ (~getUserId[c].err) =>
                      (\E i \in NamedUsers : users.list[i].ID = getUserId[c].id)
                /\ (~getUserId[c].err /\ ~getUserId[c].looked) => getUserId[c].id = userId)
    /\ [][(lookups' # lookups /\ lookups'[Len(lookups')] \in {"failed", "notfound"})
             => userId' = userId]_vars

-----------------------------------------------------------------------------
(* SQLiteJellyDb.RemoveItemsNotSeenSince, called with any arguments *)

\* an item type of Jellyfin that the store has no table for
ItemBoxSet == "BoxSet"

\* RemoveItemsNotSeenSince is called for a server: with an item type that
\* has a table or with another one, with the zero time, the current time or
\* a later one
StoreRemove(s, itemType, notSeenSince) ==
    LET pruned == RemoveItemsNotSeenSince(<<movies, episodes>>, s, itemType, notSeenSince)
    IN /\ movies' = pruned[1]
       /\ episodes' = pruned[2]
       /\ w' = [x \in EngineServers |->
                   IF x = s
                   THEN [IdleWorker EXCEPT
                            !.pc = "removed", !.start = notSeenSince,
                            !.err = RemoveItemsNotSeenSinceRefuses(itemType, notSeenSince)]
                   ELSE IdleWorker]
       /\ UNCHANGED <<changelog, state, now, diffVars, outerVars, remote, accepted,
                      phase, curType, counter, errs>>

NextRemove ==
    \/ StoreTick
    \/ \E s \in EngineServers : StoreInsert(s)
    \/ \E s \in EngineServers, itemType \in ItemTypes \cup {ItemBoxSet},
          notSeenSince \in {ZeroTime, Unix(now), Unix(now + 1)} :
          StoreRemove(s, itemType, notSeenSince)

SpecRemove == InitStore /\ [][NextRemove]_vars

\* C33: a call of RemoveItemsNotSeenSince with the zero time, or with an item
\* type other than Movie and Episode, returns an error and leaves every row
\* of both tables
RemoveRefusesZeroTime ==
    [][\A s \in EngineServers, itemType \in ItemTypes \cup {ItemBoxSet},
          notSeenSince \in {ZeroTime, Unix(now), Unix(now + 1)} :
          (/\ StoreRemove(s, itemType, notSeenSince)
           /\ (notSeenSince = ZeroTime \/ itemType \notin {"Movie", "Episode"}))
          => (/\ w'[s].err
              /\ movies' = movies
              /\ episodes' = episodes)]_vars

\* the call with the zero time has returned its error, the tables holding
\* rows of the server that a call with a time after now deletes
RemoveRefusesZeroTimeWitness ==
    \E s \in EngineServers :
        /\ w[s].pc = "removed"
        /\ w[s].start = ZeroTime
        /\ w[s].err
        /\ \E t \in ItemTypes :
              RemoveItemsNotSeenSince(<<movies, episodes>>, s, t, Unix(now + 1))
                  # <<movies, episodes>>

-----------------------------------------------------------------------------
(* App.Sync with cycles that return errors *)

LoopFrame ==
    UNCHANGED <<storeVars, now, diffVars, remote, accepted, phase, curType, w,
                clientVars, daemonVars, runVars, libVars>>

\* SyncOnce: a.mutex.Lock(), and var errs error
SyncOnceLocks(c) ==
    /\ pc[c] = "lock"
    /\ CanLock(mutex)
    /\ mutex' = c
    /\ errs' = {}
    /\ pc' = [pc EXCEPT ![c] = "movies"]
    /\ UNCHANGED <<counter, hook, closed, posted, event, cooldown, timer, ctxDone>>
    /\ LoopFrame

\* SyncOnce: syncMoviesWatchedState returns an error, which is joined to errs
SyncMoviesFails(c) ==
    /\ pc[c] = "movies"
    /\ errs' = errs \cup {"movies"}
    /\ pc' = [pc EXCEPT ![c] = "episodes"]
    /\ UNCHANGED <<counter, hook, closed, posted, event, cooldown, timer, mutex, ctxDone>>
    /\ LoopFrame

\* SyncOnce: syncEpisodesWatchedState returns an error; SyncOnce returns errs,
\* which Sync discards
SyncEpisodesFails(c) ==
    /\ pc[c] = "episodes"
    /\ errs' = errs \cup {"episodes"}
    /\ counter' = counter + 1
    /\ mutex' = Unlocked
    /\ pc' = [pc EXCEPT ![c] = IF c = "Sync" THEN "select" ELSE "idle"]
    /\ UNCHANGED <<hook, closed, posted, event, cooldown, timer, ctxDone>>
    /\ LoopFrame

NextLoop ==
    \/ Post
    \/ SyncStart
    \/ AcceptEvent
    \/ RespondTimesOut
    \/ RejectEvent
    \/ TickerFires
    \/ SyncReturns
    \/ SyncOnceLocks("Sync")
    \/ SyncMovies("Sync")
    \/ SyncMoviesFails("Sync")
    \/ SyncEpisodes("Sync")
    \/ SyncEpisodesFails("Sync")
    \/ CooldownTimerElapses
    \/ CooldownCleared
    \/ Cancel
    \/ CloseHook

SpecLoop == InitSched /\ [][NextLoop]_vars

\* C34: whenever Sync is at its select a tick can be served, with the
\* cooldown flag set or clear and whatever the last cycle returned; serving
\* it calls SyncOnce and leaves the flag; the flag is set by an accepted event
\* only and cleared by the cooldown's goroutine only, once the cooldown's time
\* has passed (or the daemon's context is cancelled); a cycle that ends, with
\* an error or without, takes Sync back to the select, and Sync returns only
\* when the context is cancelled
TickIgnoresCooldown ==
    /\ []((pc["Sync"] = "select" /\ counter < MaxSyncCalls) => ENABLED TickerFires)
    /\ [](pc["Sync"] = "returned" => ctxDone)
    /\ [][/\ TickerFires => (pc'["Sync"] = "lock" /\ cooldown' = cooldown)
          /\ (cooldown' /\ ~cooldown) => (pc["Sync"] = "select" /\ pc'["Sync"] = "respond")
          /\ (cooldown /\ ~cooldown') =>
                (/\ timer = "elapsed" \/ (timer = "waiting" /\ ctxDone)
                 /\ timer' = "none"
                 /\ pc' = pc)
          /\ (pc["Sync"] = "episodes" /\ pc'["Sync"] # "episodes") => pc'["Sync"] = "select"
         ]_vars

\* the cycle that an accepted event triggered has returned an error, the
\* cooldown is still on, and the tick can be served
TickIgnoresCooldownWitness ==
    /\ pc["Sync"] = "select"
    /\ cooldown
    /\ event.Source = "webhook"
    /\ errs # {}
    /\ counter = 2
    /\ ENABLED TickerFires

-----------------------------------------------------------------------------
(* The engine while playback goes on during a cycle *)

\* somebody plays an item on a server while SyncOnce is running
PlayDuringCycle ==
    /\ phase # "idle"
    /\ \E s \in EngineServers, t \in ItemTypes :
        \E i \in remote[s][t] :
            /\ remote' = [remote EXCEPT ![s][t] =
                  ApplyUserData(@, i.ID, [LastPlayedDate |-> Unix(now),
                                          PlayedPercentage |-> 50,
                                          PlaybackPositionTicks |-> 1,
                                          IsFavorite |-> FALSE])]
            /\ UNCHANGED <<storeVars, now, diffVars, outerVars, accepted, phase, curType, w, counter, errs>>

NextLive ==
    \/ Tick
    \/ Play
    \/ PlayDuringCycle
    \/ SyncOnceBegin
    \/ \E s \in EngineServers : Fetch(s)
    \/ PhaseBBegin
    \/ \E s \in EngineServers : Query(s)
    \/ \E s \in EngineServers : WriteAccepted(s)
    \/ EpisodesBegin
    \/ SyncOnceEnd

SpecLive == InitEngine /\ [][NextLive]_vars

\* the item with the id on the server
ItemOn(s, t, id) == CHOOSE i \in remote[s][t] : i.ID = id

\* C35 as stated: the user-data that a write replaces on a server was last
\* played, at the moment of the write, before the date that is written,
\* playback during the cycle included
NewestWinsLive ==
    [][(Len(accepted') > Len(accepted)) =>
          LET a == accepted'[Len(accepted')]
          IN TimeBefore(ItemOn(a.server, curType, a.itemID).UserData.LastPlayedDate,
                        a.userData.LastPlayedDate)]_vars

\* the items of the type in work on s whose playback the store has not seen:
\* the row of s holds another watched_date than the server, and the
\* server's user-data was not written there by Phase B
UnfetchedPlayback(s) ==
    {i \in remote[s][curType] :
        /\ ~i.UserData.LastPlayedDate.isZero
        /\ \E r \in Table(curType) :
              /\ r.server = s
              /\ r.local_id = i.ID
              /\ r.watched_date # WatchedDateOf(i)
        /\ \A k \in 1..Len(accepted) :
              ~(/\ accepted[k].server = s
                /\ accepted[k].itemID = i.ID
                /\ accepted[k].userData = i.UserData)}

\* C36 as stated: when a delta fetch from s returns, the watermark it used as
\* Since is not later than the date of any playback on s that the store has
\* not seen (a playback in the very second of the watermark is not counted
\* as lost: the server's dates are finer than the store's seconds)
NoPlaybackLost ==
    [][\A s \in EngineServers :
          (phase = "A" /\ Finishes(s) /\ ~w'[s].err /\ IsDelta(w'[s].opts)) =>
              \A i \in UnfetchedPlayback(s) :
                  ~TimeAfter(w'[s].opts.Since[1], i.UserData.LastPlayedDate)]_vars

-----------------------------------------------------------------------------
(* The engine after playback has stopped *)

\* playback goes on until the first call of SyncOnce has fetched the movies
PlaybackGoesOn == counter = 0 /\ curType = ItemMovie /\ phase \in {"idle", "A"}

\* somebody plays an item, between two calls of SyncOnce or during one
PlayEarly == PlaybackGoesOn /\ Play

PlayEarlyDuringCycle == PlaybackGoesOn /\ PlayDuringCycle

\* SyncOnce is called again, by a later tick
SyncOnceAgain ==
    /\ phase = "idle"
    /\ counter >= MaxCycles
    /\ counter < MaxCycles + MaxCounter
    /\ phase' = "A"
    /\ curType' = ItemMovie
    /\ w' = [s \in EngineServers |-> FreshWorker("fetch")]
    /\ errs' = {}
    /\ UNCHANGED <<storeVars, now, diffVars, outerVars, remote, accepted, counter>>

NextConverge ==
    \/ Tick
    \/ PlayEarly
    \/ PlayEarlyDuringCycle
    \/ SyncOnceBegin
    \/ SyncOnceAgain
    \/ \E s \in EngineServers : Fetch(s)
    \/ PhaseBBegin
    \/ \E s \in EngineServers : Query(s)
    \/ \E s \in EngineServers : WriteAccepted(s)
    \/ EpisodesBegin
    \/ SyncOnceEnd

SpecConverge == InitEngine /\ [][NextConverge]_vars

\* the goroutine of Phase A for s is about to fetch: Fetch(s) is enabled
AtFetch(s) == phase = "A" /\ w[s].pc = "fetch"

\* the ticker calls SyncOnce again and again, and the goroutines of a cycle
\* run to their end: weak fairness of every step of SyncOnce (that of
\* Fetch(s) written out, with AtFetch(s) for ENABLED <<Fetch(s)>>_vars)
FairConverge ==
    /\ SpecConverge
    /\ WF_vars(SyncOnceBegin)
    /\ WF_vars(SyncOnceAgain)
    /\ \A s \in EngineServers : []<>~AtFetch(s) \/ []<><<Fetch(s)>>_vars
    /\ WF_vars(PhaseBBegin)
    /\ \A s \in EngineServers : WF_vars(Query(s))
    /\ \A s \in EngineServers : WF_vars(WriteAccepted(s))
    /\ WF_vars(EpisodesBegin)
    /\ WF_vars(SyncOnceEnd)

\* the newest watched date that a server holds (the libraries hold the
\* items of one match key)
NewestHeld ==
    LET dates == {WatchedDateOf(i) : i \in UNION {remote[s][ItemMovie] : s \in EngineServers}}
    IN CHOOSE d \in dates : \A e \in dates : e <= d

\* every copy of the item, on every server, has the watched date
AllAt(d) == \A s \in EngineServers : \A i \in remote[s][ItemMovie] : WatchedDateOf(i) = d

\* no goroutine of Phase B has rows to write: its diff query was empty
DiffsEmpty == \A s \in EngineServers : w[s].pc # "write"

\* C37 as stated: once playback has stopped, with every fetch and write
\* succeeding, there comes a cycle from which on every diff query is empty and
\* every server holds the item with the newest watched date that any server
\* held when playback stopped
Convergence ==
    \A d \in 0..MaxTime :
        [](( ~PlaybackGoesOn /\ NewestHeld = d) => <>[](DiffsEmpty /\ AllAt(d)))

-----------------------------------------------------------------------------
(* Sync and the closed channel *)

\* C38 as stated: once the daemon's context is cancelled and the channel of
\* sync requests is closed and empty, Sync's select does not take a receive
\* from the channel for a request: it neither accepts one (cooldown, reply,
\* SyncOnce) nor goes to send the rejection of one.
ClosedChannelIsNoEvent ==
    [][(ctxDone /\ closed /\ hook = <<>> /\ pc["Sync"] = "select")
          => pc'["Sync"] \notin {"respond", "reject"}]_vars

====
